---- MODULE Spec2Model ----
(***************************************************************************)
(* A model of ply-rs: the Ply data structure and its consistency check     *)
(* (src/src/ply), the writer (src/src/writer/mod.rs) and the parser        *)
(* (src/src/parser/mod.rs, src/src/parser/ply_grammar.rs).                 *)
(*                                                                         *)
(* Text and binary data are sequences of bytes (naturals below 256), as in *)
(* the Vec<u8> the writer fills and the reader consumes.  A String is the  *)
(* sequence of its bytes; every string of the model is ASCII.              *)
(***************************************************************************)
EXTENDS Integers, Sequences, FiniteSets, TLC

\* ------------------------------------------------------------------ bytes

\* The lower-case letters in ASCII order: the letter at index i has code 96 + i.
Letters ==
    <<"a","b","c","d","e","f","g","h","i","j","k","l","m",
      "n","o","p","q","r","s","t","u","v","w","x","y","z">>

Digits == <<"0","1","2","3","4","5","6","7","8","9">>

\* The ASCII code of a character.
Ord(c) ==
    CASE c = "\t" -> 9
      [] c = "\n" -> 10
      [] c = "\r" -> 13
      [] c = " "  -> 32
      [] c = "+"  -> 43
      [] c = "-"  -> 45
      [] c = "."  -> 46
      [] c = "_"  -> 95
      [] \E i \in 1..10 : Digits[i] = c -> 47 + (CHOOSE i \in 1..10 : Digits[i] = c)
      [] OTHER -> 96 + (CHOOSE i \in 1..26 : Letters[i] = c)

\* str.as_bytes() of a string given as the sequence of its characters.
Bytes(cs) == [i \in 1..Len(cs) |-> Ord(cs[i])]

TAB == Ord("\t")
LF == Ord("\n")
CR == Ord("\r")
SP == Ord(" ")

\* str::contains for a one-byte pattern.
Contains(s, b) == \E i \in 1..Len(s) : s[i] = b

\* ------------------------------------------------------------------ KeyMap

\* KeyMap<V> = LinkedHashMap<String, V>: the sequence of its entries
\* [key, value] in iteration order; keys are distinct.
KeyIndex(m, k) ==
    IF \E i \in 1..Len(m) : m[i].key = k
    THEN CHOOSE i \in 1..Len(m) : m[i].key = k
    ELSE 0

ContainsKey(m, k) == KeyIndex(m, k) # 0

Get(m, k) == m[KeyIndex(m, k)].value

RemoveAt(m, i) == [j \in 1..(Len(m) - 1) |-> IF j < i THEN m[j] ELSE m[j + 1]]

\* An insert that stores the value of a key the map holds in the place of
\* the old one.
InsertInPlace(m, k, v) ==
    IF ContainsKey(m, k)
    THEN [i \in 1..Len(m) |-> IF m[i].key = k THEN [key |-> k, value |-> v] ELSE m[i]]
    ELSE Append(m, [key |-> k, value |-> v])

\* LinkedHashMap::insert: a new key goes to the back; an existing key gets
\* the new value and moves to the back.
Insert(m, k, v) ==
    IF ContainsKey(m, k)
    THEN Append(RemoveAt(m, KeyIndex(m, k)), [key |-> k, value |-> v])
    ELSE Append(m, [key |-> k, value |-> v])

\* Addable::add: the value is stored under its own name.
Add(m, v) == Insert(m, v.name, v)

\* get_mut(k) followed by an assignment to the entry: the position is kept.
SetValue(m, k, v) ==
    [i \in 1..Len(m) |-> IF m[i].key = k THEN [key |-> k, value |-> v] ELSE m[i]]

Keys(m) == [i \in 1..Len(m) |-> m[i].key]

\* ------------------------------------------------------------------ types

IntScalarTypes == {"Char", "UChar", "Short", "UShort", "Int", "UInt"}

ScalarTypes == IntScalarTypes \cup {"Float", "Double"}

Encodings == {"Ascii", "BinaryBigEndian", "BinaryLittleEndian"}

Scalar(t) == [kind |-> "Scalar", index |-> t, elem |-> t]

List(it, t) == [kind |-> "List", index |-> it, elem |-> t]

\* PropertyDef::new
NewPropertyDef(name, data_type) == [name |-> name, data_type |-> data_type]

\* ElementDef::new: count 0, no properties.
NewElementDef(name) == [name |-> name, count |-> 0, properties |-> <<>>]

\* Header::new
NewHeader ==
    [encoding  |-> "Ascii",
     version   |-> [major |-> 1, minor |-> 0],
     obj_infos |-> <<>>,
     elements  |-> <<>>,
     comments  |-> <<>>]

\* Ply::new
NewPly == [header |-> NewHeader, payload |-> <<>>]

\* A Property value: a scalar carries its number, a list the sequence of
\* its numbers; the tag is the variant of the enum.
ScalarProp(t, x) == [tag |-> t, list |-> FALSE, v |-> <<x>>]

ListProp(t, xs) == [tag |-> t, list |-> TRUE, v |-> xs]

\* ------------------------------------------------------- make_consistent

\* A check for blanks that forgets the tab.
has_blank(s) == Contains(s, SP)

has_white_space(s) == Contains(s, SP) \/ Contains(s, TAB)

has_line_break(s) == Contains(s, LF) \/ Contains(s, CR)

\* A first loop that gives every declared element a fresh, empty payload
\* entry, whether it had one or not.
RECURSIVE FillPayloadAfresh(_, _, _)
FillPayloadAfresh(elements, payload, i) ==
    IF i > Len(elements) THEN payload
    ELSE FillPayloadAfresh(elements, Insert(payload, elements[i].key, <<>>), i + 1)

\* First loop of make_consistent: every declared element without a payload
\* entry gets an empty one, appended in header order.
RECURSIVE FillPayload(_, _, _)
FillPayload(elements, payload, i) ==
    IF i > Len(elements) THEN payload
    ELSE FillPayload(elements,
                     IF ContainsKey(payload, elements[i].key) THEN payload
                     ELSE Insert(payload, elements[i].key, <<>>),
                     i + 1)

\* A second loop that trusts the declared counts and only looks for
\* payload entries without a declaration.
RECURSIVE SetCountsKeep(_, _, _)
SetCountsKeep(elements, payload, i) ==
    IF i > Len(payload) THEN [ok |-> TRUE, elements |-> elements]
    ELSE IF payload[i].key = <<>> \/ ~ContainsKey(elements, payload[i].key)
    THEN [ok |-> FALSE, elements |-> elements]
    ELSE SetCountsKeep(elements, payload, i + 1)

\* A second loop that passes over payload entries without a declaration.
RECURSIVE SetCountsLenient(_, _, _)
SetCountsLenient(elements, payload, i) ==
    IF i > Len(payload) THEN [ok |-> TRUE, elements |-> elements]
    ELSE IF ~ContainsKey(elements, payload[i].key)
    THEN SetCountsLenient(elements, payload, i + 1)
    ELSE SetCountsLenient(
           SetValue(elements, payload[i].key,
                    [Get(elements, payload[i].key) EXCEPT !.count = Len(payload[i].value)]),
           payload, i + 1)

\* Second loop: walk the payload in order; an empty or undeclared key ends
\* the call with an error, otherwise the declared count becomes the length
\* of the entry.  Counts set before an error stay set.
RECURSIVE SetCounts(_, _, _)
SetCounts(elements, payload, i) ==
    IF i > Len(payload) THEN [ok |-> TRUE, elements |-> elements]
    ELSE LET pk == payload[i].key IN
         IF pk = <<>> THEN [ok |-> FALSE, elements |-> elements]
         ELSE IF ~ContainsKey(elements, pk) THEN [ok |-> FALSE, elements |-> elements]
         ELSE SetCounts(
                SetValue(elements, pk,
                         [Get(elements, pk) EXCEPT !.count = Len(payload[i].value)]),
                payload, i + 1)

\* The checks of the names and texts of the header.
TextsOk(header) ==
    /\ \A i \in 1..Len(header.obj_infos) : ~has_line_break(header.obj_infos[i])
    /\ \A i \in 1..Len(header.comments) : ~has_line_break(header.comments[i])
    /\ \A i \in 1..Len(header.elements) :
          LET e == header.elements[i].value IN
          /\ ~has_line_break(e.name)
          /\ ~has_white_space(e.name)
          /\ \A j \in 1..Len(e.properties) :
                LET p == e.properties[j].value IN
                /\ ~has_line_break(p.name)
                /\ ~has_white_space(p.name)

\* Ply::make_consistent: the result and the Ply as the call leaves it.
make_consistent(p) ==
    LET payload == FillPayload(p.header.elements, p.payload, 1)
        counted == SetCounts(p.header.elements, payload, 1)
        header  == [p.header EXCEPT !.elements = counted.elements]
    IN  [ok  |-> counted.ok /\ TextsOk(header),
         ply |-> [header |-> header, payload |-> payload]]

\* ------------------------------------------------------------------ writer

\* The result of a write: st is "Ok", "Err" (the call returned an error) or
\* "Panic" (the call aborted); out holds the bytes that reached the output
\* before the call ended; n is the byte count the call returns on success.
Wrote(bs) == [st |-> "Ok", out |-> bs, n |-> Len(bs)]

WErr == [st |-> "Err", out |-> <<>>, n |-> 0]

WPanic == [st |-> "Panic", out |-> <<>>, n |-> 0]

\* written += f(out)?  after an earlier part r: the second part runs only
\* if the first succeeded, and its bytes follow those of the first.
Then(r, s) ==
    IF r.st # "Ok" THEN r
    ELSE [st |-> s.st, out |-> r.out \o s.out, n |-> r.n + s.n]

\* u64::to_string
RECURSIVE NatToString(_)
NatToString(n) ==
    IF n < 10 THEN <<48 + n>>
    ELSE Append(NatToString(n \div 10), 48 + (n % 10))

\* to_string of an integer of any of the integer kinds.
to_string(x) == IF x < 0 THEN <<Ord("-")>> \o NatToString(-x) ELSE NatToString(x)

\* Writer::new: the line terminator is "\n".
new_line == <<LF>>

write_new_line == Wrote(new_line)

write_line_magic_number == Then(Wrote(Bytes(<<"p","l","y">>)), write_new_line)

write_encoding(encoding) ==
    Wrote(CASE encoding = "Ascii" -> Bytes(<<"a","s","c","i","i">>)
            [] encoding = "BinaryBigEndian" ->
                 Bytes(<<"b","i","n","a","r","y","_","b","i","g","_","e","n","d","i","a","n">>)
            [] encoding = "BinaryLittleEndian" ->
                 Bytes(<<"b","i","n","a","r","y","_","l","i","t","t","l","e","_",
                         "e","n","d","i","a","n">>))

write_line_format(encoding, version) ==
    Then(Then(Then(Wrote(Bytes(<<"f","o","r","m","a","t"," ">>)),
                   write_encoding(encoding)),
              Wrote(<<SP>> \o NatToString(version.major) \o <<Ord(".")>>
                    \o NatToString(version.minor))),
         write_new_line)

write_line_comment(comment) ==
    Then(Wrote(Bytes(<<"c","o","m","m","e","n","t"," ">>) \o comment), write_new_line)

write_line_obj_info(obj_info) ==
    Then(Wrote(Bytes(<<"o","b","j","_","i","n","f","o"," ">>) \o obj_info), write_new_line)

write_line_element_definition(element) ==
    Then(Wrote(Bytes(<<"e","l","e","m","e","n","t"," ">>) \o element.name \o <<SP>>
               \o NatToString(element.count)),
         write_new_line)

write_scalar_type(scalar_type) ==
    Wrote(CASE scalar_type = "Char"   -> Bytes(<<"c","h","a","r">>)
            [] scalar_type = "UChar"  -> Bytes(<<"u","c","h","a","r">>)
            [] scalar_type = "Short"  -> Bytes(<<"s","h","o","r","t">>)
            [] scalar_type = "UShort" -> Bytes(<<"u","s","h","o","r","t">>)
            [] scalar_type = "Int"    -> Bytes(<<"i","n","t">>)
            [] scalar_type = "UInt"   -> Bytes(<<"u","i","n","t">>)
            [] scalar_type = "Float"  -> Bytes(<<"f","l","o","a","t">>)
            [] scalar_type = "Double" -> Bytes(<<"d","o","u","b","l","e">>))

\* "list " is written before the index type is looked at.
write_property_type(data_type) ==
    IF data_type.kind = "Scalar" THEN write_scalar_type(data_type.elem)
    ELSE Then(Wrote(Bytes(<<"l","i","s","t"," ">>)),
              IF data_type.index \in {"Float", "Double"} THEN WErr
              ELSE Then(Then(write_scalar_type(data_type.index), Wrote(<<SP>>)),
                        write_scalar_type(data_type.elem)))

write_line_property_definition(property) ==
    Then(Then(Then(Then(Wrote(Bytes(<<"p","r","o","p","e","r","t","y"," ">>)),
                        write_property_type(property.data_type)),
                   Wrote(<<SP>>)),
              Wrote(property.name)),
         write_new_line)

\* The results of the parts of a sequence, one after the other.
RECURSIVE ThenAll(_, _)
ThenAll(rs, i) ==
    IF i > Len(rs) THEN Wrote(<<>>)
    ELSE Then(rs[i], ThenAll(rs, i + 1))

write_element_definition(element) ==
    Then(write_line_element_definition(element),
         ThenAll([j \in 1..Len(element.properties) |->
                    write_line_property_definition(element.properties[j].value)], 1))

write_line_end_header ==
    Then(Wrote(Bytes(<<"e","n","d","_","h","e","a","d","e","r">>)), write_new_line)

write_header(header) ==
    Then(Then(Then(Then(Then(
        write_line_magic_number,
        write_line_format(header.encoding, header.version)),
        ThenAll([i \in 1..Len(header.comments) |->
                   write_line_comment(header.comments[i])], 1)),
        ThenAll([i \in 1..Len(header.obj_infos) |->
                   write_line_obj_info(header.obj_infos[i])], 1)),
        ThenAll([i \in 1..Len(header.elements) |->
                   write_element_definition(header.elements[i].value)], 1)),
        write_line_end_header)

\* The typed getters of DefaultElement (get_char .. get_list_double): the
\* entry stored under the key, if it is of the variant asked for.
HasProp(element, k, t, is_list) ==
    /\ ContainsKey(element, k)
    /\ Get(element, k).tag = t
    /\ Get(element, k).list = is_list

\* write_ascii_list: the length of the list, then each value after a space.
write_ascii_list(list) ==
    Then(Wrote(NatToString(Len(list))),
         ThenAll([i \in 1..Len(list) |-> Wrote(<<SP>> \o to_string(list[i]))], 1))

\* A property writer that writes nothing for a property the record lacks.
write_ascii_property_skip(element, prop_type) ==
    LET k == prop_type.name
        t == prop_type.data_type.elem
    IN  IF prop_type.data_type.kind = "Scalar"
        THEN IF HasProp(element, k, t, FALSE)
             THEN Wrote(to_string(Get(element, k).v[1]))
             ELSE Wrote(<<>>)
        ELSE IF HasProp(element, k, t, TRUE)
             THEN write_ascii_list(Get(element, k).v)
             ELSE Wrote(<<>>)

\* write_ascii_property: get_prop! returns an error when the getter of the
\* declared kind yields nothing for the name of the property definition.
write_ascii_property(element, prop_type) ==
    LET k == prop_type.name
        t == prop_type.data_type.elem
    IN  IF prop_type.data_type.kind = "Scalar"
        THEN IF HasProp(element, k, t, FALSE)
             THEN Wrote(to_string(Get(element, k).v[1]))
             ELSE WErr
        ELSE IF HasProp(element, k, t, TRUE)
             THEN write_ascii_list(Get(element, k).v)
             ELSE WErr

\* write_ascii_element: the first property is taken with unwrap(); then a
\* space is written before the iterator is asked for the next property, so a
\* space follows every property, the last one too.
write_ascii_element(element, element_def) ==
    IF Len(element_def.properties) = 0 THEN WPanic
    ELSE Then(ThenAll([j \in 1..Len(element_def.properties) |->
                         Then(write_ascii_property(element,
                                                   element_def.properties[j].value),
                              Wrote(<<SP>>))], 1),
              write_new_line)

\* The width in bytes of a scalar kind.
Width(t) ==
    CASE t \in {"Char", "UChar"} -> 1
      [] t \in {"Short", "UShort"} -> 2
      [] t \in {"Int", "UInt", "Float"} -> 4
      [] t = "Double" -> 8

\* Byte i (1 is the least significant) of the two's complement of x.  The
\* integers of the model are those of 32 bits with a sign, so the bytes of
\* a negative x are the complements of those of -x - 1.
ByteOf(x, i) ==
    IF x >= 0 THEN (x \div (256 ^ (i - 1))) % 256
    ELSE 255 - ((((-x) - 1) \div (256 ^ (i - 1))) % 256)

\* write_i8 .. write_u32::<B>: the w low bytes of x in two's complement, the
\* least significant first for LittleEndian, the most significant first for
\* BigEndian.  (x as i8 and the like truncate the same way.)
ToBytes(x, w, encoding) ==
    [i \in 1..w |->
        IF encoding = "BinaryLittleEndian" THEN ByteOf(x, i) ELSE ByteOf(x, w + 1 - i)]

\* A binary writer that adds one to `written` for each value it wrote.
WroteBinCountsValues(x, t, encoding) ==
    [st |-> "Ok", out |-> ToBytes(x, Width(t), encoding), n |-> 1]

\* out.write_i8(x)?; 1  ..  out.write_f64::<B>(x)?; 8: the bytes of the
\* value reach the output, and the constant after the write, the width of
\* the kind, is what the writer adds to `written`.
WroteBin(x, t, encoding) ==
    [st |-> "Ok", out |-> ToBytes(x, Width(t), encoding), n |-> Width(t)]

write_binary_list(list, t, encoding) ==
    ThenAll([i \in 1..Len(list) |-> WroteBin(list[i], t, encoding)], 1)

\* One property of __write_binary_element.  For a list, the length written
\* in front is element_def.count; it is written before the list is fetched.
write_binary_property(element, k, property_def, element_def, encoding) ==
    LET dt == property_def.data_type IN
    IF dt.kind = "Scalar"
    THEN IF HasProp(element, k, dt.elem, FALSE)
         THEN WroteBin(Get(element, k).v[1], dt.elem, encoding)
         ELSE WErr
    ELSE LET vec_len == element_def.count IN
         IF dt.index \in {"Float", "Double"} THEN WErr
         ELSE Then(WroteBin(vec_len, dt.index, encoding),
                   IF HasProp(element, k, dt.elem, TRUE)
                   THEN write_binary_list(Get(element, k).v, dt.elem, encoding)
                   ELSE WErr)

\* __write_binary_element
write_binary_element(element, element_def, encoding) ==
    ThenAll([j \in 1..Len(element_def.properties) |->
               write_binary_property(element, element_def.properties[j].key,
                                     element_def.properties[j].value,
                                     element_def, encoding)], 1)

write_payload_of_element(element_list, element_def, header) ==
    ThenAll([i \in 1..Len(element_list) |->
               IF header.encoding = "Ascii"
               THEN write_ascii_element(element_list[i], element_def)
               ELSE write_binary_element(element_list[i], element_def,
                                         header.encoding)], 1)

\* The element groups of the payload, in the order of the payload map;
\* element_defs[k] aborts when the header declares no element k.
write_payload(payload, header) ==
    ThenAll([i \in 1..Len(payload) |->
               IF ~ContainsKey(header.elements, payload[i].key) THEN WPanic
               ELSE write_payload_of_element(payload[i].value,
                                             Get(header.elements, payload[i].key),
                                             header)], 1)

write_ply_unchecked(p) ==
    Then(write_header(p.header), write_payload(p.payload, p.header))

\* write_ply: the result of the write and the Ply as make_consistent left it.
\* A write_ply that starts on the header before it looks at the result of
\* the consistency check.
write_ply_late_check(p) ==
    LET r == make_consistent(p) IN
    [res |-> IF r.ok THEN write_ply_unchecked(r.ply)
             ELSE [WErr EXCEPT !.out = write_header(r.ply.header).out],
     ply |-> r.ply]

write_ply(p) ==
    LET mc == make_consistent(p) IN
    [res |-> IF mc.ok THEN write_ply_unchecked(mc.ply) ELSE WErr,
     ply |-> mc.ply]

\* ----------------------------------------------------------------- grammar

\* The rules of the PEG grammar work on a string s from a position i.  A
\* rule that yields no value returns the position after its match, or 0
\* when it does not match; a rule that yields a value returns [pos, val].

Fail == [pos |-> 0, val |-> <<>>]

\* let v = ...; f(v): the value is computed once, bound to a name, and then
\* used by f.
Let(v, f(_)) == CHOOSE r \in {f(x) : x \in {v}} : TRUE

\* A string literal.
Lit(s, i, lit) ==
    IF i > 0 /\ i + Len(lit) - 1 <= Len(s)
       /\ \A k \in 1..Len(lit) : s[i + k - 1] = lit[k]
    THEN i + Len(lit)
    ELSE 0

\* The position after the longest run, from i, of bytes of the set cs.
RECURSIVE Span(_, _, _)
Span(s, i, cs) ==
    IF i <= Len(s) /\ s[i] \in cs THEN Span(s, i + 1, cs) ELSE i

\* e+ for a character class: at least one byte of cs.
Plus(s, i, cs) ==
    IF i = 0 THEN 0
    ELSE LET j == Span(s, i, cs) IN IF j > i THEN j ELSE 0

DigitChars == 48..57

IdentStart == (97..122) \cup (65..90) \cup {95}

IdentChars == IdentStart \cup DigitChars \cup {45}

\* rule space() = [' '|'\t']+
space(s, i) == Plus(s, i, {SP, TAB})

\* space()?
opt_space(s, i) == IF i = 0 THEN 0 ELSE Span(s, i, {SP, TAB})

\* The value of a run of digits s[i..j-1].
RECURSIVE DigitsValue(_, _, _)
DigitsValue(s, i, j) ==
    IF j <= i THEN 0
    ELSE 10 * DigitsValue(s, i, j - 1) + (s[j - 1] - 48)

\* rule uint() -> u64
uint(s, i) ==
    LET j == Plus(s, i, DigitChars) IN
    IF j = 0 THEN Fail ELSE [pos |-> j, val |-> DigitsValue(s, i, j)]

\* rule ident() -> String
ident(s, i) ==
    IF i > 0 /\ i <= Len(s) /\ s[i] \in IdentStart
    THEN LET j == Span(s, i + 1, IdentChars) IN
         [pos |-> j, val |-> SubSeq(s, i, j - 1)]
    ELSE Fail

\* rule text() -> String: one or more bytes that are no line break.
text(s, i) ==
    LET j == Plus(s, i, (0..255) \ {LF, CR}) IN
    IF j = 0 THEN Fail ELSE [pos |-> j, val |-> SubSeq(s, i, j - 1)]

\* rule line_break() = "\r\n" / ['\n'|'\r']
line_break(s, i) ==
    IF Lit(s, i, <<CR, LF>>) # 0 THEN i + 2
    ELSE IF i > 0 /\ i <= Len(s) /\ s[i] \in {LF, CR} THEN i + 1
    ELSE 0

\* line_break()?
opt_line_break(s, i) ==
    IF i = 0 THEN 0
    ELSE IF line_break(s, i) # 0 THEN line_break(s, i) ELSE i

\* The alternatives of rule scalar(), in the order of the grammar.
ScalarAlternatives ==
    << <<Bytes(<<"c","h","a","r">>), "Char">>,
       <<Bytes(<<"i","n","t","8">>), "Char">>,
       <<Bytes(<<"u","c","h","a","r">>), "UChar">>,
       <<Bytes(<<"u","i","n","t","8">>), "UChar">>,
       <<Bytes(<<"s","h","o","r","t">>), "Short">>,
       <<Bytes(<<"i","n","t","1","6">>), "Short">>,
       <<Bytes(<<"u","i","n","t","1","6">>), "UShort">>,
       <<Bytes(<<"u","s","h","o","r","t">>), "UShort">>,
       <<Bytes(<<"i","n","t","3","2">>), "Int">>,
       <<Bytes(<<"i","n","t">>), "Int">>,
       <<Bytes(<<"u","i","n","t","3","2">>), "UInt">>,
       <<Bytes(<<"u","i","n","t">>), "UInt">>,
       <<Bytes(<<"f","l","o","a","t","3","2">>), "Float">>,
       <<Bytes(<<"f","l","o","a","t","6","4">>), "Double">>,
       <<Bytes(<<"f","l","o","a","t">>), "Float">>,
       <<Bytes(<<"d","o","u","b","l","e">>), "Double">> >>

\* rule scalar() -> ScalarType: the first alternative that matches.
scalar(s, i) ==
    Let(ScalarAlternatives, LAMBDA alts :
        Let({a \in 1..Len(alts) : Lit(s, i, alts[a][1]) # 0}, LAMBDA hits :
            IF hits = {} THEN Fail
            ELSE Let(CHOOSE a \in hits : \A b \in hits : a <= b, LAMBDA a :
                     [pos |-> Lit(s, i, alts[a][1]), val |-> alts[a][2]])))

\* rule data_type() -> PropertyType
data_type(s, i) ==
    Let(scalar(s, i), LAMBDA sc :
        IF sc.pos # 0 THEN [pos |-> sc.pos, val |-> Scalar(sc.val)]
        ELSE Let(scalar(s, space(s, Lit(s, i, Bytes(<<"l","i","s","t">>)))), LAMBDA it :
             Let(scalar(s, space(s, it.pos)), LAMBDA t :
                 IF it.pos = 0 \/ t.pos = 0 THEN Fail
                 ELSE [pos |-> t.pos, val |-> List(it.val, t.val)])))

\* rule magic_number() = "ply"
magic_number(s, i) == Lit(s, i, Bytes(<<"p","l","y">>))

\* rule end_header() = "end_header"
end_header(s, i) == Lit(s, i, Bytes(<<"e","n","d","_","h","e","a","d","e","r">>))

\* rule version() -> Version: maj as u16, min as u8.
version(s, i) ==
    Let(uint(s, i), LAMBDA maj :
        Let(uint(s, Lit(s, maj.pos, <<Ord(".")>>)), LAMBDA min :
            IF maj.pos = 0 \/ min.pos = 0 THEN Fail
            ELSE [pos |-> min.pos,
                  val |-> [major |-> maj.val % 65536, minor |-> min.val % 256]]))

\* One alternative of rule format(): "format" space() <name> space() version()
format_alternative(s, i, name, encoding) ==
    Let(Lit(s, i, Bytes(<<"f","o","r","m","a","t">>)), LAMBDA keyword :
    Let(space(s, keyword), LAMBDA before :
    Let(Lit(s, before, name), LAMBDA named :
    Let(space(s, named), LAMBDA after :
    Let(version(s, after), LAMBDA v :
        IF v.pos = 0 THEN Fail
        ELSE [pos |-> v.pos, val |-> [encoding |-> encoding, version |-> v.val]])))))

\* rule format() -> (Encoding, Version)
format(s, i) ==
    Let(write_encoding("Ascii").out, LAMBDA ascii :
    Let(format_alternative(s, i, ascii, "Ascii"), LAMBDA a :
        IF a.pos # 0 THEN a
        ELSE Let(write_encoding("BinaryBigEndian").out, LAMBDA big_endian :
             Let(format_alternative(s, i, big_endian, "BinaryBigEndian"), LAMBDA b :
                 IF b.pos # 0 THEN b
                 ELSE Let(write_encoding("BinaryLittleEndian").out, LAMBDA little_endian :
                          format_alternative(s, i, little_endian,
                                             "BinaryLittleEndian"))))))

\* The shape of rules comment() and obj_info():
\*   keyword space() c:text() { c }  /  keyword space()? { "" }
free_text(s, i, keyword) ==
    Let(Lit(s, i, keyword), LAMBDA k :
        Let(text(s, space(s, k)), LAMBDA c :
            IF k = 0 THEN Fail
            ELSE IF c.pos # 0 THEN c
            ELSE [pos |-> opt_space(s, k), val |-> <<>>]))

comment(s, i) == free_text(s, i, Bytes(<<"c","o","m","m","e","n","t">>))

obj_info(s, i) == free_text(s, i, Bytes(<<"o","b","j","_","i","n","f","o">>))

\* rule element() -> ElementDef
element(s, i) ==
    Let(ident(s, space(s, Lit(s, i, Bytes(<<"e","l","e","m","e","n","t">>)))),
        LAMBDA id :
        Let(uint(s, space(s, id.pos)), LAMBDA n :
            IF id.pos = 0 \/ n.pos = 0 THEN Fail
            ELSE [pos |-> n.pos,
                  val |-> [NewElementDef(id.val) EXCEPT !.count = n.val]]))

\* rule property() -> PropertyDef
property(s, i) ==
    Let(data_type(s, space(s, Lit(s, i, Bytes(<<"p","r","o","p","e","r","t","y">>)))),
        LAMBDA dt :
        Let(ident(s, space(s, dt.pos)), LAMBDA id :
            IF dt.pos = 0 \/ id.pos = 0 THEN Fail
            ELSE [pos |-> id.pos, val |-> NewPropertyDef(id.val, dt.val)]))

\* A rule of trimmed_line() that matched: where it ended and the Line it made.
Matched(r, kind) == [pos |-> r.pos, val |-> [kind |-> kind, v |-> r.val]]

\* rule trimmed_line() -> Line: the first alternative that matches.
trimmed_line(s, i) ==
    Let(magic_number(s, i), LAMBDA m :
    IF m # 0 THEN [pos |-> m, val |-> [kind |-> "MagicNumber"]] ELSE
    Let(end_header(s, i), LAMBDA e :
    IF e # 0 THEN [pos |-> e, val |-> [kind |-> "EndHeader"]] ELSE
    Let(format(s, i), LAMBDA f :
    IF f.pos # 0 THEN Matched(f, "Format") ELSE
    Let(obj_info(s, i), LAMBDA o :
    IF o.pos # 0 THEN Matched(o, "ObjInfo") ELSE
    Let(comment(s, i), LAMBDA c :
    IF c.pos # 0 THEN Matched(c, "Comment") ELSE
    Let(element(s, i), LAMBDA el :
    IF el.pos # 0 THEN Matched(el, "Element") ELSE
    Let(property(s, i), LAMBDA p :
    IF p.pos # 0 THEN Matched(p, "Property") ELSE Fail)))))))

\* rule line() -> Line = l:trimmed_line() space()? line_break()? { l }
\* The whole string has to be matched.
line(s) ==
    Let(trimmed_line(s, 1), LAMBDA l :
        IF l.pos # 0 /\ opt_line_break(s, opt_space(s, l.pos)) = Len(s) + 1
        THEN [ok |-> TRUE, val |-> l.val]
        ELSE [ok |-> FALSE, val |-> [kind |-> "Error"]])

\* ['-'|'+']?
opt_sign(s, i) ==
    IF i > 0 /\ i <= Len(s) /\ s[i] \in {Ord("-"), Ord("+")} THEN i + 1 ELSE i

\* rule any_number():
\*   ['-'|'+']? ['0'..='9']+ ("." ['0'..='9']+)? ("e" ['-'|'+']? ['0'..='9']+)?
\* The position after the number, or 0.
any_number(s, i) ==
    LET a == Plus(s, opt_sign(s, i), DigitChars)
        f == Plus(s, Lit(s, a, <<Ord(".")>>), DigitChars)
        b == IF f # 0 THEN f ELSE a
        x == Plus(s, opt_sign(s, Lit(s, b, <<Ord("e")>>)), DigitChars)
    IN  IF i = 0 \/ a = 0 THEN 0 ELSE IF x # 0 THEN x ELSE b

\* Up to k further numbers of any_number() ** space(): after a number that
\* ends before position i, every further number has to follow a separator,
\* and the repetition ends where no number follows.  The k iterations are
\* evaluated as two runs of half the length, the second from where the
\* first ended.
RECURSIVE numbers(_, _, _)
numbers(s, i, k) ==
    IF k = 0 THEN [pos |-> i, val |-> <<>>]
    ELSE IF k = 1
    THEN Let(any_number(s, space(s, i)), LAMBDA j :
             IF j = 0 THEN [pos |-> i, val |-> <<>>]
             ELSE [pos |-> j, val |-> <<SubSeq(s, space(s, i), j - 1)>>])
    ELSE Let(numbers(s, i, k \div 2), LAMBDA first :
             IF first.pos = i THEN first
             ELSE Let(numbers(s, first.pos, k - k \div 2), LAMBDA rest :
                      [pos |-> rest.pos, val |-> first.val \o rest.val]))

\* The rest of any_number() ** space() from position i: a line of n bytes
\* holds fewer than n numbers.
more_numbers(s, i) == numbers(s, i, Len(s))

\* rule trimmed_data_line() -> Vec<String> = any_number() ** space()
trimmed_data_line(s, i) ==
    Let(any_number(s, i), LAMBDA j :
        IF j = 0 THEN [pos |-> i, val |-> <<>>]
        ELSE Let(more_numbers(s, j), LAMBDA rest :
                 [pos |-> rest.pos, val |-> <<SubSeq(s, i, j - 1)>> \o rest.val]))

\* rule data_line() = space()? l:trimmed_data_line() space()? line_break()? {l}
data_line(s) ==
    Let(trimmed_data_line(s, opt_space(s, 1)), LAMBDA l :
        IF opt_line_break(s, opt_space(s, l.pos)) = Len(s) + 1
        THEN [ok |-> TRUE, val |-> l.val]
        ELSE [ok |-> FALSE, val |-> <<>>])

\* ------------------------------------------------------------ number kinds

\* The least and the greatest value of an integer kind.  The integers of the
\* model end at 2^31 - 1: no value of kind UInt or usize lies above it.
MinOf(t) ==
    CASE t = "Char" -> -128
      [] t = "Short" -> -32768
      [] t = "Int" -> -2147483647 - 1
      [] OTHER -> 0

MaxOf(t) ==
    CASE t = "Char" -> 127
      [] t = "UChar" -> 255
      [] t = "Short" -> 32767
      [] t = "UShort" -> 65535
      [] t = "Int" -> 2147483647
      [] OTHER -> 2147483647

Signed(t) == t \in {"Char", "Short", "Int"}

\* A parse that takes every run of digits with a sign, whatever its value.
parse_any_value(s, t) ==
    LET neg  == Len(s) > 0 /\ s[1] = Ord("-")
        sgn  == Len(s) > 0 /\ s[1] \in {Ord("-"), Ord("+")}
        from == IF sgn THEN 2 ELSE 1
        mag  == DigitsValue(s, from, Len(s) + 1)
    IN  IF from <= Len(s) /\ \A k \in from..Len(s) : s[k] \in DigitChars
        THEN [ok |-> TRUE, val |-> IF neg THEN -mag ELSE mag]
        ELSE [ok |-> FALSE, val |-> 0]

\* str::parse::<D>() for an integer type D: an optional sign ('-' only for
\* a signed type), then digits and nothing else; the value has to fit.
parse(s, t) ==
    LET neg  == Len(s) > 0 /\ s[1] = Ord("-")
        sgn  == Len(s) > 0 /\ s[1] \in {Ord("-"), Ord("+")}
        from == IF sgn THEN 2 ELSE 1
        mag  == DigitsValue(s, from, Len(s) + 1)
        x    == IF neg THEN -mag ELSE mag
    IN  IF /\ from <= Len(s)
           /\ \A k \in from..Len(s) : s[k] \in DigitChars
           /\ ~(neg /\ ~Signed(t))
           /\ MinOf(t) <= x /\ x <= MaxOf(t)
        THEN [ok |-> TRUE, val |-> x]
        ELSE [ok |-> FALSE, val |-> 0]

\* ----------------------------------------------------------- header parser

\* BufRead::read_line from position pos of the source: the bytes up to and
\* including the next "\n", or up to the end of the source.
RECURSIVE LineEnd(_, _)
LineEnd(src, pos) ==
    IF pos > Len(src) THEN Len(src)
    ELSE IF src[pos] = LF THEN pos
    ELSE LineEnd(src, pos + 1)

read_line(src, pos) ==
    [line_str |-> SubSeq(src, pos, LineEnd(src, pos)), pos |-> LineEnd(src, pos) + 1]

None == <<>>

Some(x) == <<x>>

\* The local state of __read_header: st is "Reading" while the loop runs,
\* "Done" after end_header, "Err" after a return with an error.
HeaderState(st, form_ver, obj_infos, elements, comments, line_index) ==
    [st |-> st, header_form_ver |-> form_ver, header_obj_infos |-> obj_infos,
     header_elements |-> elements, header_comments |-> comments,
     line_index |-> line_index]

\* An error arm that goes on with the loop instead of returning.
HeaderErrorGoesOn(h) == h

\* return parse_ascii_error(..) and return parse_ascii_rethrow(..)
HeaderError(h) == [h EXCEPT !.st = "Err"]

\* A start that takes any line the grammar knows for the first line.
HeaderStartAnyLine(line_str) ==
    IF line(line_str).ok
    THEN HeaderState("Reading", None, <<>>, <<>>, <<>>, 2)
    ELSE HeaderState("Err", None, <<>>, <<>>, <<>>, 1)

\* __read_header up to its loop: the first line has to be the magic number.
HeaderStart(line_str) ==
    Let(line(line_str), LAMBDA l :
        IF l.ok /\ l.val.kind = "MagicNumber"
        THEN HeaderState("Reading", None, <<>>, <<>>, <<>>, 2)
        ELSE HeaderState("Err", None, <<>>, <<>>, <<>>, 1))

\* A property arm in which the property joins the element declared first.
AddPropertyToFirst(elements, p) ==
    LET e == elements[1].value IN
    SetValue(elements, elements[1].key,
             [e EXCEPT !.properties = Add(e.properties, p)])

\* Line::Property: the property joins the element declared last.
AddPropertyToLast(elements, p) ==
    LET e == elements[Len(elements)].value IN
    Add(SubSeq(elements, 1, Len(elements) - 1),
        [e EXCEPT !.properties = Add(e.properties, p)])

\* A format arm in which the format line read last wins.
OnFormatLastWins(h, t) ==
    [h EXCEPT !.header_form_ver = Some(t), !.line_index = h.line_index + 1]

\* The arm Ok(Line::Format(ref t)) of the loop.
OnFormat(h, t) ==
    IF h.header_form_ver = None
    THEN [h EXCEPT !.header_form_ver = Some(t), !.line_index = h.line_index + 1]
    ELSE IF h.header_form_ver[1] # t THEN HeaderError(h)
    ELSE [h EXCEPT !.line_index = h.line_index + 1]

\* A property arm that passes over a property without an element.
OnPropertySkipOrphan(h, p) ==
    IF Len(h.header_elements) = 0 THEN [h EXCEPT !.line_index = h.line_index + 1]
    ELSE [h EXCEPT !.header_elements = AddPropertyToLast(h.header_elements, p),
                   !.line_index = h.line_index + 1]

\* The arm Ok(Line::Property(p)) of the loop.
OnProperty(h, p) ==
    IF Len(h.header_elements) = 0 THEN HeaderError(h)
    ELSE [h EXCEPT !.header_elements = AddPropertyToLast(h.header_elements, p),
                   !.line_index = h.line_index + 1]

\* One turn of the loop 'readlines on the line just read.
HeaderStep(h, line_str) ==
    Let(line(line_str), LAMBDA l :
    Let([h EXCEPT !.line_index = h.line_index + 1], LAMBDA next :
        IF ~l.ok THEN HeaderError(h)
        ELSE CASE l.val.kind = "MagicNumber" -> HeaderError(h)
               [] l.val.kind = "Format" -> OnFormat(h, l.val.v)
               [] l.val.kind = "ObjInfo" ->
                    [next EXCEPT !.header_obj_infos = Append(h.header_obj_infos, l.val.v)]
               [] l.val.kind = "Comment" ->
                    [next EXCEPT !.header_comments = Append(h.header_comments, l.val.v)]
               [] l.val.kind = "Element" ->
                    [next EXCEPT !.header_elements = Add(h.header_elements, l.val.v)]
               [] l.val.kind = "Property" -> OnProperty(h, l.val.v)
               [] l.val.kind = "EndHeader" -> [next EXCEPT !.st = "Done"]))

\* A result that falls back to the format of Header::new() when no format
\* line was read.
HeaderResultDefaultFormat(h) ==
    IF h.st = "Done"
    THEN [ok |-> TRUE,
          header |-> [encoding  |-> IF h.header_form_ver = None
                                    THEN NewHeader.encoding
                                    ELSE h.header_form_ver[1].encoding,
                      version   |-> IF h.header_form_ver = None
                                    THEN NewHeader.version
                                    ELSE h.header_form_ver[1].version,
                      obj_infos |-> h.header_obj_infos,
                      elements  |-> h.header_elements,
                      comments  |-> h.header_comments]]
    ELSE [ok |-> FALSE, header |-> NewHeader]

\* __read_header after its loop: the result of the call.
HeaderResult(h) ==
    IF h.st = "Done" /\ h.header_form_ver # None
    THEN [ok |-> TRUE,
          header |-> [encoding  |-> h.header_form_ver[1].encoding,
                      version   |-> h.header_form_ver[1].version,
                      obj_infos |-> h.header_obj_infos,
                      elements  |-> h.header_elements,
                      comments  |-> h.header_comments]]
    ELSE [ok |-> FALSE, header |-> NewHeader]

\* The loop of __read_header on a source, from position pos.
RECURSIVE read_header_loop(_, _, _)
read_header_loop(src, pos, h) ==
    IF h.st # "Reading" THEN [h |-> h, pos |-> pos]
    ELSE Let(read_line(src, pos), LAMBDA l :
             read_header_loop(src, l.pos, HeaderStep(h, l.line_str)))

\* __read_header: the result and the position the reader is left at.
read_header(src) ==
    Let(read_line(src, 1), LAMBDA l :
    Let(read_header_loop(src, l.pos, HeaderStart(l.line_str)), LAMBDA r :
    Let(HeaderResult(r.h), LAMBDA res :
        [ok |-> res.ok, header |-> res.header, pos |-> r.pos])))

\* ---------------------------------------------------------- payload parser

\* The result of reading a value: the value and what is left to read (the
\* index of the next token, or the position of the next byte).
REnd(x, next) == [ok |-> TRUE, val |-> x, next |-> next]

RErr == [ok |-> FALSE, val |-> <<>>, next |-> 0]

\* The model carries no floating-point values: a token read as float or
\* double is taken as the integer it spells.
ParseKind(t) == IF t \in {"Float", "Double"} THEN "Int" ELSE t

\* A list reader that returns the values in the reverse of their order.
RECURSIVE read_ascii_list_reversed(_, _, _, _)
read_ascii_list_reversed(tokens, i, count, t) ==
    IF count = 0 THEN REnd(<<>>, i)
    ELSE IF i > Len(tokens) THEN RErr
    ELSE Let(parse(tokens[i], ParseKind(t)), LAMBDA x :
             IF ~x.ok THEN RErr
             ELSE Let(read_ascii_list_reversed(tokens, i + 1, count - 1, t), LAMBDA rest :
                      IF ~rest.ok THEN RErr
                      ELSE REnd(rest.val \o <<x.val>>, rest.next)))

\* A list reader that returns the values it found when the tokens run out.
RECURSIVE read_ascii_list_short(_, _, _, _)
read_ascii_list_short(tokens, i, count, t) ==
    IF count = 0 \/ i > Len(tokens) THEN REnd(<<>>, i)
    ELSE Let(parse(tokens[i], ParseKind(t)), LAMBDA x :
             IF ~x.ok THEN RErr
             ELSE Let(read_ascii_list_short(tokens, i + 1, count - 1, t), LAMBDA rest :
                      IF ~rest.ok THEN RErr
                      ELSE REnd(<<x.val>> \o rest.val, rest.next)))

\* __read_ascii_list: count tokens from token i on, each parsed as kind t;
\* the first token that is missing or does not parse ends the loop with an
\* error.  The count iterations are evaluated as two runs of half the
\* length, the second from where the first ended.
RECURSIVE read_ascii_list(_, _, _, _)
read_ascii_list(tokens, i, count, t) ==
    IF count = 0 THEN REnd(<<>>, i)
    ELSE IF i > Len(tokens) THEN RErr
    ELSE IF count = 1
    THEN Let(parse(tokens[i], ParseKind(t)), LAMBDA x :
             IF ~x.ok THEN RErr ELSE REnd(<<x.val>>, i + 1))
    ELSE Let(read_ascii_list(tokens, i, count \div 2, t), LAMBDA first :
             IF ~first.ok THEN RErr
             ELSE Let(read_ascii_list(tokens, first.next, count - count \div 2, t),
                      LAMBDA rest :
                      IF ~rest.ok THEN RErr
                      ELSE REnd(first.val \o rest.val, rest.next)))

\* __read_ascii_property: the next token is the scalar, or the length of the
\* list, which is parsed as usize whatever the index kind is.
read_ascii_property(tokens, i, dt) ==
    IF i > Len(tokens) THEN RErr
    ELSE IF dt.kind = "Scalar"
    THEN Let(parse(tokens[i], ParseKind(dt.elem)), LAMBDA x :
             IF x.ok THEN REnd(ScalarProp(dt.elem, x.val), i + 1) ELSE RErr)
    ELSE Let(parse(tokens[i], "usize"), LAMBDA count :
             IF ~count.ok THEN RErr
             ELSE Let(read_ascii_list(tokens, i + 1, count.val, dt.elem), LAMBDA l :
                      IF l.ok THEN REnd(ListProp(dt.elem, l.val), l.next) ELSE RErr))

\* The loop of read_ascii_element over the properties from the j-th on.
RECURSIVE read_ascii_properties(_, _, _, _)
read_ascii_properties(tokens, i, properties, j) ==
    IF j > Len(properties) THEN REnd(<<>>, i)
    ELSE Let(read_ascii_property(tokens, i, properties[j].value.data_type), LAMBDA p :
             IF ~p.ok THEN RErr
             ELSE Let(read_ascii_properties(tokens, p.next, properties, j + 1),
                      LAMBDA rest :
                      IF ~rest.ok THEN RErr
                      ELSE REnd(<<[key |-> properties[j].key, value |-> p.val]>>
                                \o rest.val, rest.next)))

\* E::new() and the calls of set_property, for DefaultElement.
RECURSIVE SetProperties(_, _, _)
SetProperties(vals, entries, j) ==
    IF j > Len(entries) THEN vals
    ELSE SetProperties(Insert(vals, entries[j].key, entries[j].value), entries, j + 1)

\* read_ascii_element
read_ascii_element(line_str, element_def) ==
    Let(data_line(line_str), LAMBDA elems :
        IF ~elems.ok THEN RErr
        ELSE Let(read_ascii_properties(elems.val, 1, element_def.properties, 1),
                 LAMBDA r :
                 IF r.ok THEN REnd(SetProperties(<<>>, r.val, 1), 0) ELSE RErr))

\* __read_ascii_payload_for_element: count lines from position pos.
RECURSIVE read_ascii_payload_for_element(_, _, _, _)
read_ascii_payload_for_element(src, pos, element_def, count) ==
    IF count = 0 THEN REnd(<<>>, pos)
    ELSE Let(read_line(src, pos), LAMBDA l :
         Let(read_ascii_element(l.line_str, element_def), LAMBDA e :
             IF ~e.ok THEN RErr
             ELSE Let(read_ascii_payload_for_element(src, l.pos, element_def, count - 1),
                      LAMBDA rest :
                      IF ~rest.ok THEN RErr
                      ELSE REnd(<<e.val>> \o rest.val, rest.next))))

\* The bytes b[1..w], least significant first, as a number without sign.
RECURSIVE Unsigned(_, _)
Unsigned(b, w) == IF w = 0 THEN 0 ELSE b[w] * (256 ^ (w - 1)) + Unsigned(b, w - 1)

\* A read that takes the bytes least significant first in either byte order.
FromBytesLittleEndian(bs, t, encoding) ==
    LET w == Len(bs) IN
    IF Signed(t) /\ bs[w] >= 128
    THEN -Unsigned([i \in 1..w |-> 255 - bs[i]], w) - 1
    ELSE Unsigned(bs, w)

\* read_i8 .. read_u32::<B> on the w bytes bs.
FromBytes(bs, t, encoding) ==
    LET w == Len(bs)
        b == IF encoding = "BinaryLittleEndian" THEN bs
             ELSE [i \in 1..w |-> bs[w + 1 - i]]
    IN  IF Signed(t) /\ b[w] >= 128
        THEN -Unsigned([i \in 1..w |-> 255 - b[i]], w) - 1
        ELSE Unsigned(b, w)

\* One read of a scalar of kind t at position pos; the source may end first.
read_scalar(src, pos, t, encoding) ==
    IF pos + Width(t) - 1 > Len(src) THEN RErr
    ELSE REnd(FromBytes(SubSeq(src, pos, pos + Width(t) - 1), t, encoding),
              pos + Width(t))

\* __read_binary_list: count values of kind t.  The loop ends with an error
\* at the first value the source does not hold.
RECURSIVE read_binary_list(_, _, _, _, _)
read_binary_list(src, pos, count, t, encoding) ==
    IF count = 0 THEN REnd(<<>>, pos)
    ELSE Let(read_scalar(src, pos, t, encoding), LAMBDA x :
             IF ~x.ok THEN RErr
             ELSE Let(read_binary_list(src, x.next, count - 1, t, encoding), LAMBDA rest :
                      IF ~rest.ok THEN RErr
                      ELSE REnd(<<x.val>> \o rest.val, rest.next)))

\* __read_binary_property.  The length of a list is read in the index kind
\* and taken "as usize": a negative length becomes a count no source holds.
read_binary_property(src, pos, dt, encoding) ==
    IF dt.kind = "Scalar"
    THEN Let(read_scalar(src, pos, dt.elem, encoding), LAMBDA x :
             IF x.ok THEN REnd(ScalarProp(dt.elem, x.val), x.next) ELSE RErr)
    ELSE IF dt.index \in {"Float", "Double"} THEN RErr
    ELSE Let(read_scalar(src, pos, dt.index, encoding), LAMBDA n :
             IF ~n.ok \/ n.val < 0 \/ n.val > Len(src) THEN RErr
             ELSE Let(read_binary_list(src, n.next, n.val, dt.elem, encoding), LAMBDA l :
                      IF l.ok THEN REnd(ListProp(dt.elem, l.val), l.next) ELSE RErr))

\* The loop of __read_binary_element over the properties from the j-th on.
RECURSIVE read_binary_properties(_, _, _, _, _)
read_binary_properties(src, pos, properties, j, encoding) ==
    IF j > Len(properties) THEN REnd(<<>>, pos)
    ELSE Let(read_binary_property(src, pos, properties[j].value.data_type, encoding),
             LAMBDA p :
             IF ~p.ok THEN RErr
             ELSE Let(read_binary_properties(src, p.next, properties, j + 1, encoding),
                      LAMBDA rest :
                      IF ~rest.ok THEN RErr
                      ELSE REnd(<<[key |-> properties[j].key, value |-> p.val]>>
                                \o rest.val, rest.next)))

\* __read_binary_element
read_binary_element(src, pos, element_def, encoding) ==
    Let(read_binary_properties(src, pos, element_def.properties, 1, encoding), LAMBDA r :
        IF r.ok THEN REnd(SetProperties(<<>>, r.val, 1), r.next) ELSE RErr)

\* __read_binary_payload_for_element
RECURSIVE read_binary_payload_for_element(_, _, _, _, _)
read_binary_payload_for_element(src, pos, element_def, count, encoding) ==
    IF count = 0 THEN REnd(<<>>, pos)
    ELSE Let(read_binary_element(src, pos, element_def, encoding), LAMBDA e :
             IF ~e.ok THEN RErr
             ELSE Let(read_binary_payload_for_element(src, e.next, element_def,
                                                      count - 1, encoding),
                      LAMBDA rest :
                      IF ~rest.ok THEN RErr
                      ELSE REnd(<<e.val>> \o rest.val, rest.next)))

\* A loop that makes no entry for an element declared with count 0.
RECURSIVE read_payload_skip_empty(_, _, _, _, _)
read_payload_skip_empty(src, pos, header, i, payload) ==
    IF i > Len(header.elements) THEN REnd(payload, pos)
    ELSE Let(header.elements[i].value, LAMBDA e :
         Let(IF header.encoding = "Ascii"
             THEN read_ascii_payload_for_element(src, pos, e, e.count)
             ELSE read_binary_payload_for_element(src, pos, e, e.count, header.encoding),
             LAMBDA elems :
             IF ~elems.ok THEN RErr
             ELSE read_payload_skip_empty(src, elems.next, header, i + 1,
                    IF e.count = 0 THEN payload
                    ELSE Insert(payload, header.elements[i].key, elems.val))))

\* The loop of __read_payload over the elements of the header from the
\* i-th on: each group is read and inserted under the key of its element.
RECURSIVE read_payload_loop(_, _, _, _, _)
read_payload_loop(src, pos, header, i, payload) ==
    IF i > Len(header.elements) THEN REnd(payload, pos)
    ELSE Let(header.elements[i].value, LAMBDA e :
         Let(IF header.encoding = "Ascii"
             THEN read_ascii_payload_for_element(src, pos, e, e.count)
             ELSE read_binary_payload_for_element(src, pos, e, e.count, header.encoding),
             LAMBDA elems :
             IF ~elems.ok THEN RErr
             ELSE read_payload_loop(src, elems.next, header, i + 1,
                                    Insert(payload, header.elements[i].key, elems.val))))

\* __read_payload
read_payload(src, pos, header) == read_payload_loop(src, pos, header, 1, <<>>)

\* read_ply: the header, then the payload; an error of either is the result.
read_ply(src) ==
    Let(read_header(src), LAMBDA h :
        IF ~h.ok THEN [ok |-> FALSE, ply |-> NewPly]
        ELSE Let(read_payload(src, h.pos, h.header), LAMBDA p :
                 IF p.ok
                 THEN [ok |-> TRUE, ply |-> [header |-> h.header, payload |-> p.val]]
                 ELSE [ok |-> FALSE, ply |-> NewPly]))

\* ------------------------------------------------------------------- state

VARIABLES
    ply,    \* the Ply<DefaultElement> the client holds
    pc,     \* the last call of the client: "build", "checked", "written", "read"
    mc,     \* the result of the last make_consistent: "None", "Ok", "Err"
    out,    \* the Vec<u8> the writer writes to
    wres,   \* the result of the write: [call, st, n], st "None" before any write
    rres,   \* the result of read_ply on out: [st, ply], st "None" before
    xres,   \* per encoding, the result of writing ply and reading it back
    hst,    \* the local state of a running __read_header, st "Idle" before
    hline,  \* the line __read_header read last
    hseen,  \* the kinds of the lines __read_header read so far
    lines,  \* the Line values the client wrote to out, line by line
    eres    \* the result of the last call that read one element: [call, st, element]

vars == <<ply, pc, mc, out, wres, rres, xres, hst, hline, hseen, lines, eres>>

\* ------------------------------------------------------------------ bounds

\* The most elements, properties, comments, obj_infos, payload entries and
\* records, counted together, the client puts into a Ply: when it tries the
\* consistency check, and when it writes and reads back.
MaxSize == 3

MaxRoundTripSize == 4

RECURSIVE SumLen(_, _)
SumLen(m, i) == IF i > Len(m) THEN 0 ELSE Len(m[i]) + SumLen(m, i + 1)

Size(p) ==
    Len(p.header.elements)
    + SumLen([i \in 1..Len(p.header.elements) |-> p.header.elements[i].value.properties], 1)
    + Len(p.header.comments) + Len(p.header.obj_infos)
    + Len(p.payload)
    + SumLen([i \in 1..Len(p.payload) |-> p.payload[i].value], 1)

\* ----------------------------------------------------------------- actions

NoWrite == [call |-> "None", st |-> "None", n |-> 0]

NoRead == [st |-> "None", ply |-> NewPly]

NoCross == [encoding \in Encodings |-> NoRead]

Idle == HeaderState("Idle", None, <<>>, <<>>, <<>>, 0)

NoElement == [call |-> "None", st |-> "None", element |-> <<>>]

\* The client changes its Ply; what it wrote or read before is dropped.
Build(p) ==
    /\ pc \in {"build", "checked"}
    /\ ply' = p
    /\ pc' = "build"
    /\ mc' = "None"
    /\ UNCHANGED <<out, wres, rres, xres, hst, hline, hseen, lines, eres>>

\* ply.header.elements.add(e) for e = ElementDef::new(name) with the count
\* field set to count.
AddElement(name, count) ==
    Build([ply EXCEPT !.header.elements =
              Add(@, [NewElementDef(name) EXCEPT !.count = count])])

\* ply.header.elements[k].properties.add(PropertyDef::new(name, data_type))
AddProperty(k, name, dt) ==
    /\ ContainsKey(ply.header.elements, k)
    /\ Build([ply EXCEPT !.header.elements =
                 SetValue(@, k, [Get(@, k) EXCEPT !.properties =
                                    Add(@, NewPropertyDef(name, dt))])])

\* ply.header.comments.push(c)
PushComment(c) == Build([ply EXCEPT !.header.comments = Append(@, c)])

\* ply.header.obj_infos.push(oi)
PushObjInfo(oi) == Build([ply EXCEPT !.header.obj_infos = Append(@, oi)])

\* ply.header.encoding = encoding
SetEncoding(encoding) ==
    /\ ply.header.encoding # encoding
    /\ Build([ply EXCEPT !.header.encoding = encoding])

\* ply.payload.insert(k, Vec::new())
InsertPayload(k) ==
    /\ ~ContainsKey(ply.payload, k)
    /\ Build([ply EXCEPT !.payload = Insert(@, k, <<>>)])

\* ply.payload[k].push(element)
PushRecord(k, rec) ==
    /\ ContainsKey(ply.payload, k)
    /\ Build([ply EXCEPT !.payload = SetValue(@, k, Append(Get(@, k), rec))])

\* ply.make_consistent()
MakeConsistent ==
    /\ pc = "build"
    /\ ply' = make_consistent(ply).ply
    /\ mc' = IF make_consistent(ply).ok THEN "Ok" ELSE "Err"
    /\ pc' = "checked"
    /\ UNCHANGED <<out, wres, rres, xres, hst, hline, hseen, lines, eres>>

\* The bytes of a write reach the output, whatever the result of the call.
Written(call, r) ==
    /\ out' = out \o r.out
    /\ wres' = [call |-> call, st |-> r.st, n |-> IF r.st = "Ok" THEN r.n ELSE 0]
    /\ pc' = "written"

\* Writer::new().write_ply(&mut out, &mut ply)
WritePly ==
    /\ pc \in {"build", "checked"}
    /\ Written("write_ply", write_ply(ply).res)
    /\ ply' = write_ply(ply).ply
    /\ mc' = IF make_consistent(ply).ok THEN "Ok" ELSE "Err"
    /\ UNCHANGED <<rres, xres, hst, hline, hseen, lines, eres>>

\* Writer::new().write_ply_unchecked(&mut out, &ply), called, as its
\* documentation asks, on a Ply that make_consistent accepted.
WritePlyUnchecked ==
    /\ pc = "checked"
    /\ mc = "Ok"
    /\ Written("write_ply_unchecked", write_ply_unchecked(ply))
    /\ UNCHANGED <<ply, mc, rres, xres, hst, hline, hseen, lines, eres>>

\* What tests/write.rs does with a Ply: write it, and if that went well,
\* read the bytes back.
RoundTrip(p) ==
    Let(write_ply_unchecked(p), LAMBDA w :
        IF w.st # "Ok" THEN [st |-> "NotWritten", ply |-> NewPly]
        ELSE Let(read_ply(w.out), LAMBDA r :
                 [st |-> IF r.ok THEN "Ok" ELSE "Err", ply |-> r.ply]))

\* The same consistent Ply goes through the round trip once per encoding.
CrossEncode ==
    /\ pc = "checked"
    /\ mc = "Ok"
    /\ xres' = [encoding \in Encodings |->
                  RoundTrip([ply EXCEPT !.header.encoding = encoding])]
    /\ pc' = "crossed"
    /\ UNCHANGED <<ply, mc, out, wres, rres, hst, hline, hseen, lines, eres>>

\* Parser::new().read_ply(&mut &out[..]) on the bytes a write returned Ok for.
ReadPly ==
    /\ pc = "written"
    /\ wres.st = "Ok"
    /\ rres' = [st |-> IF read_ply(out).ok THEN "Ok" ELSE "Err", ply |-> read_ply(out).ply]
    /\ pc' = "read"
    /\ UNCHANGED <<ply, mc, out, wres, xres, hst, hline, hseen, lines, eres>>

Init ==
    /\ ply = NewPly
    /\ pc = "build"
    /\ mc = "None"
    /\ out = <<>>
    /\ wres = NoWrite
    /\ rres = NoRead
    /\ xres = NoCross
    /\ hst = Idle
    /\ hline = <<>>
    /\ hseen = {}
    /\ lines = <<>>
    /\ eres = NoElement

\* ------------------------------------------- the consistency check: inputs

\* Names with a blank, a tab or a line break.
BadNames == {<<SP>>, <<Ord("a"), TAB>>, <<LF, Ord("a")>>, <<CR>>}

ElementNames == {Bytes(<<"a">>), Bytes(<<"b">>)} \cup BadNames

PropertyNames == {Bytes(<<"x">>)} \cup BadNames

Texts == {Bytes(<<"h","i">>), <<Ord("h"), LF>>, <<CR, Ord("i")>>}

PayloadKeys == {Bytes(<<"a">>), Bytes(<<"b">>), <<>>}

IntRecord == <<[key |-> Bytes(<<"x">>), value |-> ScalarProp("Int", -7)]>>

Next ==
    \/ /\ Size(ply) < MaxSize
       /\ \/ \E name \in ElementNames, count \in {0, 2} : AddElement(name, count)
          \/ \E k \in ElementNames, name \in PropertyNames :
                AddProperty(k, name, Scalar("Int"))
          \/ \E c \in Texts : PushComment(c)
          \/ \E oi \in Texts : PushObjInfo(oi)
          \/ \E k \in PayloadKeys : InsertPayload(k)
          \/ \E k \in PayloadKeys : PushRecord(k, IntRecord)
    \/ MakeConsistent
    \/ WritePly

Spec == Init /\ [][Next]_vars

\* ------------------------------------------- the consistency check: claims

LineBreaks == {LF, CR}

WhiteSpace == {SP, TAB}

HasAnyOf(s, cs) == \E i \in 1..Len(s) : s[i] \in cs

\* A name with a blank, a tab or a line break, or a comment or obj_info with
\* a line break, anywhere in the header.
HasBadText(header) ==
    \/ \E i \in 1..Len(header.comments) : HasAnyOf(header.comments[i], LineBreaks)
    \/ \E i \in 1..Len(header.obj_infos) : HasAnyOf(header.obj_infos[i], LineBreaks)
    \/ \E i \in 1..Len(header.elements) :
          \/ HasAnyOf(header.elements[i].value.name, LineBreaks \cup WhiteSpace)
          \/ \E j \in 1..Len(header.elements[i].value.properties) :
                HasAnyOf(header.elements[i].value.properties[j].value.name,
                         LineBreaks \cup WhiteSpace)

\* The payload of p holds an entry no element of the header declares.
HasUndeclaredEntry(p) ==
    \E i \in 1..Len(p.payload) : ~ContainsKey(p.header.elements, p.payload[i].key)

\* A step in which make_consistent runs: on its own or inside write_ply.
ChecksConsistency == pc' \in {"checked", "written"} /\ pc' # pc

\* C4: after make_consistent returned Ok, every element the header declares
\* has a payload entry, and its count is the length of that entry.
C4_CountsMatchPayload ==
    (pc = "checked" /\ mc = "Ok") =>
        \A i \in 1..Len(ply.header.elements) :
            /\ ContainsKey(ply.payload, ply.header.elements[i].key)
            /\ ply.header.elements[i].value.count
                 = Len(Get(ply.payload, ply.header.elements[i].key))

\* make_consistent returned Ok on an element with one record: no element
\* is declared with a count of one, so the call has set it.
C4_Witness ==
    /\ pc = "checked" /\ mc = "Ok"
    /\ Len(ply.header.elements) = 1
    /\ ply.header.elements[1].value.count = 1
    /\ Len(ply.payload[1].value) = 1

\* C5: make_consistent returns an error whenever the payload holds an entry
\* whose element name the header does not declare.
C5_UndeclaredEntryFails ==
    [][(ChecksConsistency /\ HasUndeclaredEntry(ply)) => mc' = "Err"]_vars

\* make_consistent returned an error on a Ply whose only flaw is a payload
\* entry without a declaration.
C5_Witness ==
    /\ pc = "checked" /\ mc = "Err"
    /\ HasUndeclaredEntry(ply)
    /\ Len(ply.header.elements) > 0
    /\ ~HasBadText(ply.header)

\* C6: make_consistent returns an error if an element or property name holds
\* a blank, a tab or a line break, or a comment or obj_info holds a line
\* break, wherever the string sits and whatever the payload holds.
C6_BadTextFails ==
    [][(ChecksConsistency /\ HasBadText(ply.header)) => mc' = "Err"]_vars

\* make_consistent returned an error on a Ply whose only flaw is a tab in
\* the name of a property, and whose payload holds an entry.
C6_Witness ==
    /\ pc = "checked" /\ mc = "Err"
    /\ ~HasUndeclaredEntry(ply)
    /\ Len(ply.payload) = 1
    /\ Len(ply.header.elements) = 1
    /\ ~HasBadText([ply.header EXCEPT !.elements = <<>>])
    /\ ~HasAnyOf(ply.header.elements[1].value.name, LineBreaks \cup WhiteSpace)
    /\ Len(ply.header.elements[1].value.properties) = 1
    /\ HasAnyOf(ply.header.elements[1].value.properties[1].value.name, {TAB})

\* C7: when the consistency check inside write_ply fails, write_ply returns
\* an error and the output holds no byte more than before the call.
C7_NoByteBeforeCheck ==
    [][(pc' = "written" /\ pc # "written" /\ wres'.call = "write_ply" /\ mc' = "Err")
          => (wres'.st = "Err" /\ out' = out)]_vars

\* write_ply returned an error on an inconsistent Ply and wrote nothing.
C7_Witness ==
    /\ pc = "written" /\ wres.call = "write_ply"
    /\ mc = "Err" /\ wres.st = "Err"
    /\ HasBadText(ply.header)
    /\ out = <<>>

\* ------------------------------------------------- reading a header: model

\* The most lines __read_header is given.
MaxLines == 5

Formats ==
    { [encoding |-> "Ascii", version |-> [major |-> 1, minor |-> 0]],
      [encoding |-> "BinaryLittleEndian", version |-> [major |-> 1, minor |-> 0]],
      [encoding |-> "Ascii", version |-> [major |-> 1, minor |-> 1]] }

HeaderElements ==
    { [NewElementDef(Bytes(<<"a">>)) EXCEPT !.count = 1],
      [NewElementDef(Bytes(<<"b">>)) EXCEPT !.count = 2] }

HeaderProperties ==
    { NewPropertyDef(Bytes(<<"x">>), Scalar("Int")),
      NewPropertyDef(Bytes(<<"y">>), List("UChar", "Int")) }

FormatLine(f) == write_line_format(f.encoding, f.version).out

PropertyLines == { write_line_property_definition(p).out : p \in HeaderProperties }

\* The lines of the input, each with the kind of line it was written as:
\* the lines the writer writes, 'ply' with other line ends, the end of the
\* input, and a line no rule of the grammar matches.
HeaderLines ==
    { [tag |-> "ply", bytes |-> write_line_magic_number.out],
      [tag |-> "ply", bytes |-> Bytes(<<"p","l","y">>)],
      [tag |-> "ply", bytes |-> Bytes(<<"p","l","y"," ">>) \o <<CR, LF>>],
      [tag |-> "junk", bytes |-> Bytes(<<"p","l","y","x">>) \o <<LF>>],
      [tag |-> "eof", bytes |-> <<>>],
      [tag |-> "comment", bytes |-> write_line_comment(Bytes(<<"h","i">>)).out],
      [tag |-> "obj_info", bytes |-> write_line_obj_info(Bytes(<<"h","i">>)).out],
      [tag |-> "end_header", bytes |-> write_line_end_header.out] }
    \cup { [tag |-> "format", bytes |-> FormatLine(f)] : f \in Formats }
    \cup { [tag |-> "element", bytes |-> write_line_element_definition(e).out] :
             e \in HeaderElements }
    \cup { [tag |-> "property", bytes |-> b] : b \in PropertyLines }

\* __read_header reads its first line.
StartHeader(l) ==
    /\ hst.st = "Idle"
    /\ hst' = HeaderStart(l.bytes)
    /\ hline' = l.bytes
    /\ hseen' = {l.tag}
    /\ UNCHANGED <<ply, pc, mc, out, wres, rres, xres, lines, eres>>

\* __read_header reads one more line.
ReadHeaderLine(l) ==
    /\ hst.st = "Reading"
    /\ hst.line_index <= MaxLines
    /\ hst' = HeaderStep(hst, l.bytes)
    /\ hline' = l.bytes
    /\ hseen' = hseen \cup {l.tag}
    /\ UNCHANGED <<ply, pc, mc, out, wres, rres, xres, lines, eres>>

NextHeader ==
    \/ \E l \in HeaderLines : StartHeader(l)
    \/ \E l \in HeaderLines : ReadHeaderLine(l)

SpecHeader == Init /\ [][NextHeader]_vars

\* ------------------------------------------------ reading a header: claims

\* The line holds the token 'ply' and after it nothing but blanks and the
\* end of the line.
IsMagicLine(l) ==
    /\ Len(l) >= Len(Bytes(<<"p","l","y">>))
    /\ SubSeq(l, 1, Len(Bytes(<<"p","l","y">>))) = Bytes(<<"p","l","y">>)
    /\ \A i \in (Len(Bytes(<<"p","l","y">>)) + 1)..Len(l) : l[i] \in WhiteSpace \cup LineBreaks

\* __read_header has returned an error.
HeaderFailed(h) == h.st = "Err" /\ ~HeaderResult(h).ok

\* C8: read_header returns an error unless the first line is the magic token
\* 'ply', and it returns an error when a 'ply' line comes on a later line.
C8_MagicFirstAndOnlyFirst ==
    [][/\ (hst.st = "Idle" /\ hst' # hst /\ ~IsMagicLine(hline')) => HeaderFailed(hst')
       /\ (hst.st = "Reading" /\ hst' # hst /\ IsMagicLine(hline')) => HeaderFailed(hst')]_vars

\* read_header returned an error on a second 'ply' line, after lines it took.
C8_Witness ==
    /\ HeaderFailed(hst)
    /\ hst.line_index > 2
    /\ IsMagicLine(hline)
    /\ hseen = {"ply", "format"}

\* C9: the first format line fixes encoding and version; a later format line
\* with the same encoding and version changes nothing but the line count,
\* and one that differs in encoding or version makes read_header return an
\* error.  The header returned carries what the first format line fixed.
C9_FormatFixedOnce ==
    [][/\ \A f \in Formats :
            (hst.st = "Reading" /\ hst' # hst /\ hline' = FormatLine(f)) =>
                IF hst.header_form_ver = None
                THEN hst' = [hst EXCEPT !.header_form_ver = Some(f),
                                        !.line_index = hst.line_index + 1]
                ELSE IF hst.header_form_ver = Some(f)
                THEN hst' = [hst EXCEPT !.line_index = hst.line_index + 1]
                ELSE HeaderFailed(hst')
       /\ (hst.st = "Reading" /\ hst.header_form_ver # None /\ ~HeaderFailed(hst')) =>
                hst'.header_form_ver = hst.header_form_ver
       /\ (hst'.st = "Done" /\ hst'.header_form_ver # None) =>
                /\ HeaderResult(hst').ok
                /\ HeaderResult(hst').header.encoding = hst'.header_form_ver[1].encoding
                /\ HeaderResult(hst').header.version = hst'.header_form_ver[1].version]_vars

\* read_header returned an error on a format line whose version differs from
\* the one of the first format line.
C9_Witness ==
    /\ HeaderFailed(hst)
    /\ hst.header_form_ver # None
    /\ \E f \in Formats :
          /\ hline = FormatLine(f)
          /\ f.encoding = hst.header_form_ver[1].encoding
          /\ f.version # hst.header_form_ver[1].version

\* C10: read_header returns an error when a property line comes before any
\* element line.
C10_OrphanPropertyFails ==
    [][(hst.st = "Reading" /\ hst' # hst /\ hline' \in PropertyLines
          /\ "element" \notin hseen) => HeaderFailed(hst')]_vars

\* read_header returned an error on a property line after a format line and
\* no element line.
C10_Witness ==
    /\ HeaderFailed(hst)
    /\ hline \in PropertyLines
    /\ hseen = {"ply", "format", "property"}

\* C11: read_header returns Ok only if a format line was read before
\* end_header: a header that reaches end_header without a format line, and a
\* header whose input ends (read_line returns no byte) yield an error.
C11_FormatRequired ==
    /\ HeaderResult(hst).ok =>
          (hst.st = "Done" /\ "format" \in hseen /\ hst.header_form_ver # None)
    /\ (hst.st = "Done" /\ "format" \notin hseen) => ~HeaderResult(hst).ok
    /\ (hst.st # "Idle" /\ hline = <<>>) => HeaderFailed(hst)

\* read_header reached end_header after an element line and no format line.
C11_Witness ==
    /\ hst.st = "Done"
    /\ hseen = {"ply", "element", "end_header"}
    /\ ~HeaderResult(hst).ok

\* -------------------------------------------------- the round trip: model

RoundTripNames == {Bytes(<<"a">>), Bytes(<<"b">>)}

RoundTripTypes == {Scalar("Int"), List("UChar", "Int")}

RoundTripTexts == {Bytes(<<"h","i">>), <<SP, Ord("h")>>}

\* DefaultElement records: without a property, with a scalar x, with a list x.
RoundTripRecords ==
    { <<>>,
      <<[key |-> Bytes(<<"x">>), value |-> ScalarProp("Int", -7)]>>,
      <<[key |-> Bytes(<<"x">>), value |-> ListProp("Int", <<258, -1>>)]>>,
      <<[key |-> Bytes(<<"x">>), value |-> ListProp("Int", <<3>>)]>> }

NextRoundTrip ==
    \/ /\ Size(ply) < MaxRoundTripSize
       /\ \/ \E name \in RoundTripNames : AddElement(name, 0)
          \/ \E k \in RoundTripNames, dt \in RoundTripTypes :
                AddProperty(k, Bytes(<<"x">>), dt)
          \/ \E c \in RoundTripTexts : PushComment(c)
          \/ \E k \in RoundTripNames : InsertPayload(k)
          \/ \E k \in RoundTripNames, rec \in RoundTripRecords : PushRecord(k, rec)
    \/ \E encoding \in Encodings : SetEncoding(encoding)
    \/ MakeConsistent
    \/ WritePly
    \/ WritePlyUnchecked
    \/ ReadPly
    \/ CrossEncode

SpecRoundTrip == Init /\ [][NextRoundTrip]_vars

\* ------------------------------------------------- the round trip: claims

\* Every entry of the payload belongs to a declared element, and every
\* record holds the properties of its element, in their order and of their
\* kind: integer scalars and integer lists with an integer index kind.
WellFormed(p) ==
    \A i \in 1..Len(p.payload) :
        /\ ContainsKey(p.header.elements, p.payload[i].key)
        /\ \A r \in 1..Len(p.payload[i].value) :
              LET rec   == p.payload[i].value[r]
                  props == Get(p.header.elements, p.payload[i].key).properties
              IN  /\ Len(rec) = Len(props)
                  /\ \A j \in 1..Len(props) :
                        /\ rec[j].key = props[j].key
                        /\ props[j].value.name = props[j].key
                        /\ props[j].value.data_type.index \in IntScalarTypes
                        /\ props[j].value.data_type.elem \in IntScalarTypes
                        /\ rec[j].value.tag = props[j].value.data_type.elem
                        /\ rec[j].value.list = (props[j].value.data_type.kind = "List")

\* C1: for a Ply with ASCII encoding that make_consistent accepted, read_ply
\* on the bytes write_ply_unchecked produced returns Ok with a header and a
\* payload equal to the original ones.
C1_AsciiRoundTrip ==
    (/\ pc = "read" /\ wres.call = "write_ply_unchecked"
     /\ ply.header.encoding = "Ascii"
     /\ WellFormed(ply))
        => (rres.st = "Ok" /\ rres.ply = ply)

\* C2: for a Ply with a binary encoding that make_consistent accepted,
\* read_ply on the bytes write_ply produced returns a Ply whose header and
\* payload equal the original ones, also when a list is not as long as the
\* element has records.
C2_BinaryRoundTrip ==
    (/\ pc = "read" /\ wres.call = "write_ply" /\ mc = "Ok"
     /\ ply.header.encoding \in {"BinaryBigEndian", "BinaryLittleEndian"}
     /\ WellFormed(ply))
        => (rres.st = "Ok" /\ rres.ply = ply)

\* C3: the same consistent schema and payload, written once per encoding and
\* read back, gives three results with equal header.elements and payload.
C3_CrossEncoding ==
    (/\ pc = "crossed"
     /\ WellFormed(ply)
     /\ \A e \in Encodings : xres[e].st # "NotWritten")
        => \A e1, e2 \in Encodings :
              /\ xres[e1].st = "Ok"
              /\ xres[e1].ply.header.elements = xres[e2].ply.header.elements
              /\ xres[e1].ply.payload = xres[e2].ply.payload

\* C13: after a successful read_ply the payload has one entry per element
\* of the header, in the order of the header's elements, and the entry of
\* element e holds e.count records (none for an element of count 0).
C13_PayloadFollowsHeader ==
    (pc = "read" /\ rres.st = "Ok") =>
        /\ Keys(rres.ply.payload) = Keys(rres.ply.header.elements)
        /\ \A i \in 1..Len(rres.ply.header.elements) :
              Len(rres.ply.payload[i].value) = rres.ply.header.elements[i].value.count

\* read_ply succeeded on a file with an element of count 0 and an element
\* with a record, written from a payload that is not in the header's order.
C13_Witness ==
    /\ pc = "read"
    /\ rres.st = "Ok"
    /\ Len(rres.ply.header.elements) = Len(Bytes(<<"a","b">>))
    /\ \E i, j \in 1..Len(rres.ply.header.elements) :
          /\ rres.ply.header.elements[i].value.count = 0
          /\ rres.ply.header.elements[j].value.count > 0
    /\ Keys(ply.payload) # Keys(ply.header.elements)

\* ------------------------------------- a header written line by line: model

\* The most lines the client writes before end_header.
MaxTextLines == 6

\* The Line values of the grammar (enum Line of the parser).
MagicNumberLine == [kind |-> "MagicNumber"]

EndHeaderLine == [kind |-> "EndHeader"]

FormatOf(header) == [encoding |-> header.encoding, version |-> header.version]

\* The lines the client writes between the first format line and end_header:
\* the format line once more, a comment that begins with a blank, an
\* obj_info, elements, properties.
TextLines ==
    << [kind |-> "Format", v |-> FormatOf(NewHeader)],
       [kind |-> "Comment", v |-> <<SP, Ord("h")>>],
       [kind |-> "ObjInfo", v |-> Bytes(<<"h","i">>)],
       [kind |-> "Element", v |-> [NewElementDef(Bytes(<<"a">>)) EXCEPT !.count = 1]],
       [kind |-> "Element", v |-> [NewElementDef(Bytes(<<"b">>)) EXCEPT !.count = 2]],
       [kind |-> "Property", v |-> NewPropertyDef(Bytes(<<"x">>), Scalar("Int"))],
       [kind |-> "Property", v |-> NewPropertyDef(Bytes(<<"y">>), List("UChar", "Int"))] >>

\* The write_line_* function of the writer that writes the Line value l.
write_line(l) ==
    CASE l.kind = "MagicNumber" -> write_line_magic_number
      [] l.kind = "Format" -> write_line_format(l.v.encoding, l.v.version)
      [] l.kind = "Comment" -> write_line_comment(l.v)
      [] l.kind = "ObjInfo" -> write_line_obj_info(l.v)
      [] l.kind = "Element" -> write_line_element_definition(l.v)
      [] l.kind = "Property" -> write_line_property_definition(l.v)
      [] l.kind = "EndHeader" -> write_line_end_header

\* The client writes one more line of a header: 'ply' first, a format line
\* second, end_header last.
WriteHeaderLine(l) ==
    /\ pc \in {"build", "header"}
    /\ pc = "build" => lines = <<>> /\ out = <<>>
    /\ CASE Len(lines) = 0 -> l.kind = "MagicNumber"
         [] Len(lines) = 1 -> l.kind = "Format"
         [] OTHER -> \/ l.kind = "EndHeader"
                     \/ l.kind # "MagicNumber" /\ Len(lines) < MaxTextLines
    /\ out' = out \o write_line(l).out
    /\ wres' = [call |-> "write_line", st |-> write_line(l).st, n |-> write_line(l).n]
    /\ lines' = Append(lines, l)
    /\ pc' = IF l.kind = "EndHeader" THEN "header_end" ELSE "header"
    /\ UNCHANGED <<ply, mc, rres, xres, hst, hline, hseen, eres>>

\* Parser::new().read_header(&mut &out[..]) on the header the client wrote.
ReadHeader ==
    /\ pc = "header_end"
    /\ rres' = Let(read_header(out), LAMBDA r :
                    [st |-> IF r.ok THEN "Ok" ELSE "Err",
                     ply |-> [header |-> r.header, payload |-> <<>>]])
    /\ pc' = "header_read"
    /\ UNCHANGED <<ply, mc, out, wres, xres, hst, hline, hseen, lines, eres>>

NextText ==
    \/ WriteHeaderLine(MagicNumberLine)
    \/ \E n \in 1..Len(TextLines) : WriteHeaderLine(TextLines[n])
    \/ WriteHeaderLine(EndHeaderLine)
    \/ ReadHeader

SpecText == Init /\ [][NextText]_vars

\* ------------------------------------ a header written line by line: claims

\* The elements the first n lines declare: an element line opens an element,
\* a property line adds its property to the element opened last.
RECURSIVE DeclaredElements(_, _)
DeclaredElements(ls, n) ==
    IF n = 0 THEN <<>>
    ELSE LET before == DeclaredElements(ls, n - 1) IN
         CASE ls[n].kind = "Element" ->
                Append(before, [key |-> ls[n].v.name, value |-> ls[n].v])
           [] ls[n].kind = "Property" /\ before # <<>> ->
                [before EXCEPT ![Len(before)].value.properties =
                    Append(@, [key |-> ls[n].v.name, value |-> ls[n].v])]
           [] OTHER -> before

DistinctKeys(m) == \A i, j \in 1..Len(m) : m[i].key = m[j].key => i = j

\* The element names are distinct, the property names are distinct within
\* each element, and no property line comes before the first element line.
DistinctNames(ls) ==
    /\ DistinctKeys(DeclaredElements(ls, Len(ls)))
    /\ \A i \in 1..Len(DeclaredElements(ls, Len(ls))) :
          DistinctKeys(DeclaredElements(ls, Len(ls))[i].value.properties)
    /\ \A n \in 1..Len(ls) :
          ls[n].kind = "Property" => \E m \in 1..(n - 1) : ls[m].kind = "Element"

\* C12: for a header with distinct element names and distinct property
\* names within each element, read_header returns the elements in the order
\* of their element lines, each with the properties of the property lines
\* that follow its element line, in their order, whatever comment, obj_info
\* and repeated format lines stand between them.
C12_ElementsInLineOrder ==
    (pc = "header_read" /\ DistinctNames(lines)) =>
        /\ rres.st = "Ok"
        /\ rres.ply.header.elements = DeclaredElements(lines, Len(lines))

\* read_header returned an element with two properties from a header with a
\* comment line between the two property lines.
C12_Witness ==
    /\ pc = "header_read"
    /\ rres.st = "Ok"
    /\ DistinctNames(lines)
    /\ [n \in 1..Len(lines) |-> lines[n].kind] =
          <<"MagicNumber", "Format", "Element", "Property", "Comment", "Property",
            "EndHeader">>
    /\ Len(rres.ply.header.elements[1].value.properties) = 2

\* ------------------------------------------- one element at a time: model

\* The most tokens of a data line, and the most bytes of a binary input.
MaxTokens == 4

MaxBytes == 4

\* The kinds of the properties of the element: integers of one, two and
\* four bytes, a list, and a list whose index kind is float.
ElementTypes ==
    {Scalar("Int"), Scalar("UShort"), Scalar("Char"),
     List("UChar", "Int"), List("Float", "Int")}

\* The numbers on a data line, and the bytes of a binary input.
TokenValues == {-7, 2, 0}

ByteValues == {0, 1, 255}

\* The numbers of the data line in out.
DataTokens == IF lines = <<>> THEN <<>> ELSE lines[1].v

\* The client puts one more number on the data line in out.
AppendToken(x) ==
    /\ pc \in {"build", "line"}
    /\ pc = "build" => lines = <<>> /\ out = <<>>
    /\ Len(DataTokens) < MaxTokens
    /\ out' = IF out = <<>> THEN to_string(x) ELSE out \o <<SP>> \o to_string(x)
    /\ lines' = <<[kind |-> "Data", v |-> Append(DataTokens, x)]>>
    /\ pc' = "line"
    /\ UNCHANGED <<ply, mc, wres, rres, xres, hst, hline, hseen, eres>>

\* The client puts one more byte into the binary input in out.
AppendByte(b) ==
    /\ pc \in {"build", "bytes"}
    /\ pc = "build" => lines = <<>> /\ out = <<>>
    /\ Len(out) < MaxBytes
    /\ out' = Append(out, b)
    /\ pc' = "bytes"
    /\ UNCHANGED <<ply, mc, wres, rres, xres, hst, hline, hseen, lines, eres>>

\* The name of the public function that handles one element in an encoding.
ElementCall(prefix, encoding) ==
    CASE encoding = "Ascii" -> prefix \o "_ascii_element"
      [] encoding = "BinaryBigEndian" -> prefix \o "_big_endian_element"
      [] encoding = "BinaryLittleEndian" -> prefix \o "_little_endian_element"

\* read_ascii_element(&out, &element_def), read_big_endian_element(&mut
\* &out[..], &element_def) or read_little_endian_element, for the definition
\* of element k.
ReadElement(k, encoding) ==
    /\ pc \in {"build", "line", "bytes"}
    /\ ContainsKey(ply.header.elements, k)
    /\ eres' = Let(IF encoding = "Ascii"
                   THEN read_ascii_element(out, Get(ply.header.elements, k))
                   ELSE read_binary_element(out, 1, Get(ply.header.elements, k), encoding),
                   LAMBDA r : [call |-> ElementCall("read", encoding),
                               st |-> IF r.ok THEN "Ok" ELSE "Err",
                               element |-> r.val])
    /\ pc' = "element_read"
    /\ UNCHANGED <<ply, mc, out, wres, rres, xres, hst, hline, hseen, lines>>

\* write_ascii_element(&mut out, &element, &element_def), or
\* write_big_endian_element, or write_little_endian_element, for the first
\* record the payload holds for element k and the definition of element k.
WriteElement(k, encoding) ==
    /\ pc = "build"
    /\ ContainsKey(ply.header.elements, k)
    /\ ContainsKey(ply.payload, k)
    /\ Len(Get(ply.payload, k)) > 0
    /\ \E r \in {IF encoding = "Ascii"
                 THEN write_ascii_element(Get(ply.payload, k)[1],
                                          Get(ply.header.elements, k))
                 ELSE write_binary_element(Get(ply.payload, k)[1],
                                           Get(ply.header.elements, k), encoding)} :
          /\ out' = out \o r.out
          /\ wres' = [call |-> ElementCall("write", encoding), st |-> r.st,
                      n |-> IF r.st = "Ok" THEN r.n ELSE 0]
    /\ pc' = "element_written"
    /\ UNCHANGED <<ply, mc, rres, xres, hst, hline, hseen, lines, eres>>

\* The client declares element a with up to two properties, x and then y,
\* and either gives it a record and writes it, or prepares an input and
\* reads an element from it.
NextElement ==
    \/ AddElement(Bytes(<<"a">>), 1)
    \/ \E dt \in ElementTypes :
          /\ ContainsKey(ply.header.elements, Bytes(<<"a">>))
          /\ ply.payload = <<>>
          /\ \/ /\ Len(Get(ply.header.elements, Bytes(<<"a">>)).properties) = 0
                /\ AddProperty(Bytes(<<"a">>), Bytes(<<"x">>), dt)
             \/ /\ Len(Get(ply.header.elements, Bytes(<<"a">>)).properties) = 1
                /\ AddProperty(Bytes(<<"a">>), Bytes(<<"y">>), dt)
    \/ InsertPayload(Bytes(<<"a">>))
    \/ \E rec \in RoundTripRecords :
          /\ ContainsKey(ply.payload, Bytes(<<"a">>))
          /\ Len(Get(ply.payload, Bytes(<<"a">>))) = 0
          /\ PushRecord(Bytes(<<"a">>), rec)
    \/ \E x \in TokenValues : ply.payload = <<>> /\ AppendToken(x)
    \/ \E b \in ByteValues : ply.payload = <<>> /\ AppendByte(b)
    \/ \E encoding \in Encodings : ReadElement(Bytes(<<"a">>), encoding)
    \/ \E encoding \in Encodings : WriteElement(Bytes(<<"a">>), encoding)

SpecElement == Init /\ [][NextElement]_vars

\* ------------------------------------------ one element at a time: claims

\* The definition of the element the client reads and writes.
ElementDefA == Get(ply.header.elements, Bytes(<<"a">>))

\* An element definition with the given properties, in their order.
RECURSIVE WithProperties(_, _, _)
WithProperties(element_def, props, j) ==
    IF j > Len(props) THEN element_def
    ELSE WithProperties([element_def EXCEPT !.properties = Add(@, props[j])], props, j + 1)

\* The numbers a record holds, property after property: a scalar gives its
\* value, a list gives its length and then its values.
RECURSIVE Flatten(_, _)
Flatten(rec, j) ==
    IF j > Len(rec) THEN <<>>
    ELSE (IF rec[j].value.list THEN <<Len(rec[j].value.v)>> ELSE <<>>)
         \o rec[j].value.v \o Flatten(rec, j + 1)

\* The record has the properties of the definition, in their order, each of
\* the declared kind.
HasShape(rec, props) ==
    /\ Keys(rec) = Keys(props)
    /\ \A j \in 1..Len(props) :
          /\ rec[j].value.tag = props[j].value.data_type.elem
          /\ rec[j].value.list = (props[j].value.data_type.kind = "List")

\* C14: read_ascii_element gives the tokens of the line to the properties
\* from left to right in the declared order, one token to a scalar, a length
\* token n and then n tokens to a list: the record read holds, property
\* after property, the numbers the line starts with.  The line '-7 5' read
\* as (x: int, y: uint) gives x = -7 and y = 5, and the line '3 0 1 2' read
\* as 'list uchar int vertex_index' gives the one list [0, 1, 2].
C14_TokensLeftToRight ==
    /\ (pc = "element_read" /\ eres.call = "read_ascii_element" /\ eres.st = "Ok"
           /\ (lines # <<>> \/ out = <<>>)) =>
          /\ HasShape(eres.element, ElementDefA.properties)
          /\ Len(Flatten(eres.element, 1)) <= Len(DataTokens)
          /\ Flatten(eres.element, 1) =
                SubSeq(DataTokens, 1, Len(Flatten(eres.element, 1)))
    /\ read_ascii_element(
          to_string(-7) \o <<SP>> \o to_string(5),
          WithProperties(NewElementDef(Bytes(<<"p">>)),
              <<NewPropertyDef(Bytes(<<"x">>), Scalar("Int")),
                NewPropertyDef(Bytes(<<"y">>), Scalar("UInt"))>>, 1))
          = REnd(<<[key |-> Bytes(<<"x">>), value |-> ScalarProp("Int", -7)],
                   [key |-> Bytes(<<"y">>), value |-> ScalarProp("UInt", 5)]>>, 0)
    /\ read_ascii_element(
          Bytes(<<"3"," ","0"," ","1"," ","2">>),
          WithProperties(NewElementDef(Bytes(<<"f">>)),
              <<NewPropertyDef(Bytes(<<"v","e","r","t","e","x","_","i","n","d","e","x">>),
                               List("UChar", "Int"))>>, 1))
          = REnd(<<[key |-> Bytes(<<"v","e","r","t","e","x","_","i","n","d","e","x">>),
                    value |-> ListProp("Int", <<0, 1, 2>>)]>>, 0)

\* read_ascii_element read a scalar and a list of two values from a line of
\* four tokens.
C14_Witness ==
    /\ pc = "element_read"
    /\ eres.call = "read_ascii_element"
    /\ eres.st = "Ok"
    /\ Len(DataTokens) = MaxTokens
    /\ Len(eres.element) = Len(Bytes(<<"x","y">>))
    /\ ~eres.element[1].value.list
    /\ eres.element[2].value.list
    /\ Len(eres.element[2].value.v) = Len(DataTokens) - 2

\* The numbers vals of a line run out before the properties from the j-th
\* on have all been read, used of the numbers being taken already: no token
\* is left for a scalar or for the length of a list, or fewer tokens are
\* left than the length of a list announces.
RECURSIVE RunsOut(_, _, _, _)
RunsOut(vals, props, j, used) ==
    IF j > Len(props) THEN FALSE
    ELSE IF used >= Len(vals) THEN TRUE
    ELSE IF props[j].value.data_type.kind = "Scalar"
    THEN RunsOut(vals, props, j + 1, used + 1)
    ELSE IF vals[used + 1] < 0 THEN FALSE
    ELSE IF used + 1 + vals[used + 1] > Len(vals) THEN TRUE
    ELSE RunsOut(vals, props, j + 1, used + 1 + vals[used + 1])

\* C15: read_ascii_element returns an error, and no record, whenever the
\* tokens of the line run out before every declared property has been read.
C15_TokensRunOut ==
    (/\ pc = "element_read" /\ eres.call = "read_ascii_element"
     /\ (lines # <<>> \/ out = <<>>)
     /\ RunsOut(DataTokens, ElementDefA.properties, 1, 0))
        => (eres.st = "Err" /\ eres.element = <<>>)

\* read_ascii_element returned an error on a line whose first token
\* announces a list of two values and that has one more token.
C15_Witness ==
    /\ pc = "element_read"
    /\ eres.call = "read_ascii_element"
    /\ eres.st = "Err"
    /\ Len(ElementDefA.properties) = 1
    /\ ElementDefA.properties[1].value.data_type.kind = "List"
    /\ Len(DataTokens) = 2
    /\ DataTokens[1] = 2
    /\ DataTokens[2] = 0

\* The definition declares a list whose index kind is float or double.
HasFloatIndex(props) ==
    \E j \in 1..Len(props) :
        /\ props[j].value.data_type.kind = "List"
        /\ props[j].value.data_type.index \in {"Float", "Double"}

\* C16: a list property whose index kind is float or double is rejected
\* with an error when a record is decoded, in ASCII and in either binary
\* encoding, when a record is encoded, in ASCII and in binary, and when the
\* property line of the header is written.
C16_FloatIndexRejected ==
    /\ (pc = "element_read" /\ HasFloatIndex(ElementDefA.properties)) => eres.st = "Err"
    /\ (pc = "element_written" /\ HasFloatIndex(ElementDefA.properties)) => wres.st = "Err"
    /\ \A it \in {"Float", "Double"} :
          write_line_property_definition(
              NewPropertyDef(Bytes(<<"x">>), List(it, "Int"))).st = "Err"

\* The power of 256 that byte i of w bytes stands for in a byte order.
WeightOf(i, w, encoding) == IF encoding = "BinaryLittleEndian" THEN i - 1 ELSE w - i

RECURSIVE WeightedSum(_, _, _)
WeightedSum(bs, n, encoding) ==
    IF n = 0 THEN 0
    ELSE bs[n] * (256 ^ WeightOf(n, Len(bs), encoding)) + WeightedSum(bs, n - 1, encoding)

\* The byte order of a call that read a binary element.
OrderOf(call) ==
    IF call = "read_big_endian_element" THEN "BinaryBigEndian" ELSE "BinaryLittleEndian"

\* An element definition with the one property x of kind t.
OneScalar(t) ==
    WithProperties(NewElementDef(Bytes(<<"a">>)),
                   <<NewPropertyDef(Bytes(<<"x">>), Scalar(t))>>, 1)

\* C17: the binary decode of an integer scalar of w bytes takes the bytes in
\* the byte order of the call: byte i is the digit of weight 256^(i-1) in
\* little-endian and of weight 256^(w-i) in big-endian of the value in
\* two's complement, and a value that is not negative is the sum of the
\* weighted bytes.  The bytes 01 00 00 00 read as int give 1 in
\* little-endian and 16777216 in big-endian; the kinds of one byte read the
\* same in both orders.
C17_ByteOrder ==
    /\ (/\ pc = "element_read" /\ eres.call # "read_ascii_element"
        /\ Len(ElementDefA.properties) = 1
        /\ ElementDefA.properties[1].value.data_type.kind = "Scalar"
        /\ Len(out) >= Width(ElementDefA.properties[1].value.data_type.elem)) =>
          LET t  == ElementDefA.properties[1].value.data_type.elem
              w  == Width(t)
              bs == SubSeq(out, 1, w)
              v  == eres.element[1].value.v[1]
          IN  /\ eres.st = "Ok"
              /\ MinOf(t) <= v /\ v <= MaxOf(t)
              /\ \A i \in 1..w : ByteOf(v, WeightOf(i, w, OrderOf(eres.call)) + 1) = bs[i]
              /\ v >= 0 => v = WeightedSum(bs, w, OrderOf(eres.call))
              /\ w = 1 => read_binary_element(out, 1, ElementDefA, "BinaryBigEndian")
                            = read_binary_element(out, 1, ElementDefA, "BinaryLittleEndian")
    /\ read_binary_element(<<1, 0, 0, 0>>, 1, OneScalar("Int"), "BinaryLittleEndian").val
          = <<[key |-> Bytes(<<"x">>), value |-> ScalarProp("Int", 1)]>>
    /\ read_binary_element(<<1, 0, 0, 0>>, 1, OneScalar("Int"), "BinaryBigEndian").val
          = <<[key |-> Bytes(<<"x">>), value |-> ScalarProp("Int", 16777216)]>>

\* The bytes 01 00 00 00 were read as an int in big-endian.
C17_Witness ==
    /\ pc = "element_read"
    /\ eres.call = "read_big_endian_element"
    /\ eres.st = "Ok"
    /\ ElementDefA = [OneScalar("Int") EXCEPT !.count = 1]
    /\ out = <<1, 0, 0, 0>>
    /\ eres.element[1].value.v[1] = 16777216

\* The record the client writes.
RecordA == Get(ply.payload, Bytes(<<"a">>))[1]

\* C18: when a binary record is written, the length prefix of a list
\* property is the number of values of the list the record holds, in the
\* width and byte order of the index kind, whatever the count of the
\* element definition is.
C18_ListPrefixIsLength ==
    (/\ pc = "element_written" /\ wres.call # "write_ascii_element" /\ wres.st = "Ok"
     /\ Len(ElementDefA.properties) = 1
     /\ ElementDefA.properties[1].value.data_type.kind = "List") =>
        LET index == ElementDefA.properties[1].value.data_type.index
            order == IF wres.call = "write_big_endian_element"
                     THEN "BinaryBigEndian" ELSE "BinaryLittleEndian"
        IN  SubSeq(out, 1, Width(index)) =
                ToBytes(Len(Get(RecordA, ElementDefA.properties[1].key).v),
                        Width(index), order)

\* The record yields no value of the declared kind for a property of the
\* definition: the getter of that kind returns None for the property's name.
LacksProperty(rec, props) ==
    \E j \in 1..Len(props) :
        ~HasProp(rec, props[j].value.name, props[j].value.data_type.elem,
                 props[j].value.data_type.kind = "List")

\* C19: writing a record, in ASCII or in binary, returns an error when the
\* record yields no value of the declared kind for a property the element
\* definition declares.
C19_MissingPropertyFails ==
    (pc = "element_written" /\ LacksProperty(RecordA, ElementDefA.properties))
        => wres.st = "Err"

\* write_ascii_element returned an error for a record that holds a list
\* under the name of a property declared as a scalar.
C19_Witness ==
    /\ pc = "element_written"
    /\ wres.call = "write_ascii_element"
    /\ wres.st = "Err"
    /\ Len(ElementDefA.properties) = 1
    /\ ElementDefA.properties[1].value.data_type = Scalar("Int")
    /\ ContainsKey(RecordA, ElementDefA.properties[1].key)
    /\ Get(RecordA, ElementDefA.properties[1].key).list

\* C20: for every format, comment, obj_info, element and property line the
\* writer writes, the header grammar parses the bytes written to the Line
\* value that was written, also for a comment that begins with a blank.
C20_GrammarIdempotence ==
    [][(lines' # lines /\ pc' = "header"
          /\ lines'[Len(lines')].kind # "MagicNumber") =>
            Let(line(SubSeq(out', Len(out) + 1, Len(out'))), LAMBDA r :
                /\ r.ok
                /\ r.val.kind = lines'[Len(lines')].kind
                /\ r.val = lines'[Len(lines')])]_vars

\* ------------------------------------------------- the line ends of a header

\* The line ends a header file may carry, and the blanks before them.
LineTerminators == <<(<<LF>>), (<<CR, LF>>), (<<CR>>)>>

TrailingBlanks == <<(<<>>), (<<SP>>), (<<TAB>>)>>

\* The bytes each(lo), ..., each(hi) one after the other.
RECURSIVE Join(_, _, _)
Join(each(_), lo, hi) ==
    IF lo > hi THEN <<>>
    ELSE IF lo = hi THEN each(lo)
    ELSE Join(each, lo, (lo + hi) \div 2) \o Join(each, (lo + hi) \div 2 + 1, hi)

\* The text s with every "\n" replaced by the bytes of line_end.
WithLineEnds(s, line_end) ==
    Join(LAMBDA i : IF s[i] = LF THEN line_end ELSE <<s[i]>>, 1, Len(s))

\* The text s with every line end, "\r\n", "\r" or "\n", replaced by "\n".
WithNewLines(s) ==
    Join(LAMBDA i : IF s[i] = CR THEN <<LF>>
                    ELSE IF s[i] = LF /\ i > 1 /\ s[i - 1] = CR THEN <<>>
                    ELSE <<s[i]>>, 1, Len(s))

\* The header the client wrote gets other line ends, with blanks before
\* them, and Parser::new().read_header reads it.
ReadHeaderWithLineEnds(terminator, blanks) ==
    /\ pc = "header_end"
    /\ out' = WithLineEnds(out, blanks \o terminator)
    /\ rres' = Let(read_header(out'), LAMBDA r :
                    [st |-> IF r.ok THEN "Ok" ELSE "Err",
                     ply |-> [header |-> r.header, payload |-> <<>>]])
    /\ pc' = "header_read"
    /\ UNCHANGED <<ply, mc, wres, xres, hst, hline, hseen, lines, eres>>

NextLineEnds ==
    \/ WriteHeaderLine(MagicNumberLine)
    \/ \E n \in 1..Len(TextLines) : WriteHeaderLine(TextLines[n])
    \/ WriteHeaderLine(EndHeaderLine)
    \/ \E t \in 1..Len(LineTerminators), b \in 1..Len(TrailingBlanks) :
          ReadHeaderWithLineEnds(LineTerminators[t], TrailingBlanks[b])

SpecLineEnds == Init /\ [][NextLineEnds]_vars

\* C21: a header that read_header accepts with its lines ended by "\n" is
\* accepted as well with all lines ended by "\r\n" or all by "\r", with or
\* without blanks before the line end, and the Header returned is the same.
C21_LineEndsAccepted ==
    pc = "header_read" =>
        Let(read_header(WithNewLines(out)), LAMBDA r :
            r.ok => (rres.st = "Ok" /\ rres.ply.header = r.header))

\* The part of C21 that holds: the line ends "\n" and "\r\n".
LineEndsWithNewLine ==
    (pc = "header_read" /\ (Contains(out, CR) => Contains(out, LF))) =>
        Let(read_header(WithNewLines(out)), LAMBDA r :
            r.ok => (rres.st = "Ok" /\ rres.ply.header = r.header))

\* ------------------------------------------- the order of the element groups

MaxOrderSize == 8

\* DefaultElement records with one scalar x.
OrderRecords ==
    { <<[key |-> Bytes(<<"x">>), value |-> ScalarProp("Int", -7)]>>,
      <<[key |-> Bytes(<<"x">>), value |-> ScalarProp("Int", 2)]>> }

\* A client declares elements with a property x, fills the payload in an
\* order of its own, and calls write_ply.
NextOrder ==
    \/ /\ Size(ply) < MaxOrderSize
       /\ \/ \E name \in RoundTripNames : AddElement(name, 0)
          \/ \E k \in RoundTripNames : AddProperty(k, Bytes(<<"x">>), Scalar("Int"))
          \/ \E k \in RoundTripNames : InsertPayload(k)
          \/ \E k \in RoundTripNames, rec \in OrderRecords : PushRecord(k, rec)
    \/ WritePly

SpecOrder == Init /\ [][NextOrder]_vars

\* The element groups of the payload, written in the order in which the
\* header declares the elements.
GroupsInHeaderOrder(p) ==
    Join(LAMBDA i : write_payload_of_element(Get(p.payload, p.header.elements[i].key),
                                             p.header.elements[i].value,
                                             p.header).out,
         1, Len(p.header.elements))

\* C22: the bytes that a successful write_ply leaves in the output are the
\* header followed by the element groups in the order in which that header
\* declares the elements, whatever the order of the entries of the payload.
C22_GroupsFollowHeader ==
    (pc = "written" /\ wres.call = "write_ply" /\ wres.st = "Ok") =>
        out = write_header(ply.header).out \o GroupsInHeaderOrder(ply)

\* What the writer does: the groups come in the order of the payload map.
GroupsFollowPayload ==
    (pc = "written" /\ wres.call = "write_ply" /\ wres.st = "Ok") =>
        out = write_header(ply.header).out
              \o Join(LAMBDA i : write_payload_of_element(
                                     ply.payload[i].value,
                                     Get(ply.header.elements, ply.payload[i].key),
                                     ply.header).out,
                      1, Len(ply.payload))

\* ------------------------------------------------------ the bytes written

\* C23: when write_ply or write_ply_unchecked returns Ok(n), n is the
\* number of bytes the call appended to the output, in Ascii and in both
\* binary encodings, for scalar and for list properties.
C23_ReturnsBytesWritten ==
    (pc = "written" /\ wres.st = "Ok") => wres.n = Len(out)

\* A binary write of a record with a list of two values went well.
C23_Witness ==
    /\ pc = "written"
    /\ wres.st = "Ok"
    /\ wres.call = "write_ply"
    /\ ply.header.encoding = "BinaryBigEndian"
    /\ \E i \in 1..Len(ply.payload) : \E r \in 1..Len(ply.payload[i].value) :
          LET rec == ply.payload[i].value[r] IN
          /\ Len(rec) = 1
          /\ rec[1].value.list
          /\ Len(rec[1].value.v) = 2

\* ------------------------------------------------- the length of a list

\* The index kinds a list property is declared with.
IndexKinds == {"Char", "UChar", "Short"}

\* Lengths around the largest value of the smallest index kind, i8.
ListLengths == {0, 1, 2, MaxOf("Char"), MaxOf("Char") + 1}

\* The client puts a data line into out: the length token count, then n
\* values 0.
WriteListLine(count, n) ==
    /\ pc = "build"
    /\ lines = <<>> /\ out = <<>>
    /\ out' = to_string(count) \o Join(LAMBDA i : <<SP, Ord("0")>>, 1, n)
    /\ lines' = <<[kind |-> "Data", v |-> <<count>> \o [i \in 1..n |-> 0]]>>
    /\ pc' = "line"
    /\ UNCHANGED <<ply, mc, wres, rres, xres, hst, hline, hseen, eres>>

NextListLength ==
    \/ AddElement(Bytes(<<"a">>), 1)
    \/ \E index \in IndexKinds :
          AddProperty(Bytes(<<"a">>), Bytes(<<"x">>), List(index, "Int"))
    \/ \E count \in ListLengths, n \in ListLengths : WriteListLine(count, n)
    \/ ReadElement(Bytes(<<"a">>), "Ascii")

SpecListLength == Init /\ [][NextListLength]_vars

\* The index kind of the list property x of element a, once a line was read
\* for it.
ListIndexRead(index) ==
    /\ pc = "element_read"
    /\ eres.call = "read_ascii_element"
    /\ lines # <<>>
    /\ Len(ElementDefA.properties) = 1
    /\ ElementDefA.properties[1].value.data_type = List(index, "Int")

\* C24: read_ascii_element returns an error for a list property when the
\* length token of the line is larger than the largest value of the index
\* kind the property declares.
C24_LengthInIndexRange ==
    \A index \in IndexKinds :
        (ListIndexRead(index) /\ DataTokens[1] > MaxOf(index)) => eres.st = "Err"

\* What the reader does: the length token is a usize, and the read succeeds
\* exactly when at least that many values follow it.
LengthIsUsize ==
    \A index \in IndexKinds :
        ListIndexRead(index) =>
            (eres.st = "Ok" <=> Len(DataTokens) - 1 >= DataTokens[1])

\* ------------------------------------------------- the token of a scalar

\* The integer kinds of a scalar property.
ScalarKinds == {"Char", "UChar", "Short", "UShort", "Int", "UInt"}

\* Tokens that rule data_line accepts, each with what it spells: whether it
\* is an integer numeral (an optional sign and digits), whether its sign is
\* '-', and the integer it denotes.
ScalarTokens ==
    << [s |-> Bytes(<<"0">>),                 int |-> TRUE,  minus |-> FALSE, val |-> 0],
       [s |-> Bytes(<<"-","0">>),             int |-> TRUE,  minus |-> TRUE,  val |-> 0],
       [s |-> Bytes(<<"-","1">>),             int |-> TRUE,  minus |-> TRUE,  val |-> -1],
       [s |-> Bytes(<<"+","7">>),             int |-> TRUE,  minus |-> FALSE, val |-> 7],
       [s |-> Bytes(<<"0","3","4">>),         int |-> TRUE,  minus |-> FALSE, val |-> 34],
       [s |-> Bytes(<<"1","2","7">>),         int |-> TRUE,  minus |-> FALSE, val |-> 127],
       [s |-> Bytes(<<"1","2","8">>),         int |-> TRUE,  minus |-> FALSE, val |-> 128],
       [s |-> Bytes(<<"-","1","2","8">>),     int |-> TRUE,  minus |-> TRUE,  val |-> -128],
       [s |-> Bytes(<<"-","1","2","9">>),     int |-> TRUE,  minus |-> TRUE,  val |-> -129],
       [s |-> Bytes(<<"2","5","5">>),         int |-> TRUE,  minus |-> FALSE, val |-> 255],
       [s |-> Bytes(<<"2","5","6">>),         int |-> TRUE,  minus |-> FALSE, val |-> 256],
       [s |-> Bytes(<<"6","5","5","3","6">>), int |-> TRUE,  minus |-> FALSE, val |-> 65536],
       [s |-> Bytes(<<"5",".","0">>),         int |-> FALSE, minus |-> FALSE, val |-> 5],
       [s |-> Bytes(<<"8","e","3">>),         int |-> FALSE, minus |-> FALSE, val |-> 8000] >>

\* The client puts a data line with the one token ScalarTokens[n] into out.
WriteScalarLine(n) ==
    /\ pc = "build"
    /\ lines = <<>> /\ out = <<>>
    /\ out' = ScalarTokens[n].s
    /\ lines' = <<[kind |-> "Token", v |-> <<n>>]>>
    /\ pc' = "line"
    /\ UNCHANGED <<ply, mc, wres, rres, xres, hst, hline, hseen, eres>>

NextScalar ==
    \/ AddElement(Bytes(<<"a">>), 1)
    \/ \E t \in ScalarKinds : AddProperty(Bytes(<<"a">>), Bytes(<<"x">>), Scalar(t))
    \/ \E n \in 1..Len(ScalarTokens) : WriteScalarLine(n)
    \/ ReadElement(Bytes(<<"a">>), "Ascii")

SpecScalar == Init /\ [][NextScalar]_vars

\* A line with one token was read for element a with the one scalar
\* property x of kind t.
ScalarRead(t) ==
    /\ pc = "element_read"
    /\ eres.call = "read_ascii_element"
    /\ lines # <<>>
    /\ Len(ElementDefA.properties) = 1
    /\ ElementDefA.properties[1].value.data_type = Scalar(t)

\* The token of the line that was read.
TokenRead == ScalarTokens[lines[1].v[1]]

\* The element read holds the value val of kind t under x, and nothing else.
HoldsScalar(t, val) ==
    /\ Len(eres.element) = 1
    /\ eres.element[1].key = Bytes(<<"x">>)
    /\ eres.element[1].value = ScalarProp(t, val)

\* C25 as the specification states it: the read of an integer scalar
\* succeeds exactly when the token is an integer numeral whose value lies
\* in the range of the kind, and then yields that value.
C25_IntegerInRange ==
    \A t \in ScalarKinds :
        ScalarRead(t) =>
            /\ eres.st = "Ok" <=>
                  (TokenRead.int /\ MinOf(t) <= TokenRead.val /\ TokenRead.val <= MaxOf(t))
            /\ eres.st = "Ok" => HoldsScalar(t, TokenRead.val)

\* C25, amended: the read of an integer scalar succeeds exactly when the
\* token is an integer numeral whose value lies in the range of the kind
\* and which, for an unsigned kind, carries no '-' sign ("-0" is an error
\* for uchar, ushort and uint); it then yields that value.
C25_IntegerInRangeOfKind ==
    \A t \in ScalarKinds :
        ScalarRead(t) =>
            /\ eres.st = "Ok" <=>
                  /\ TokenRead.int
                  /\ MinOf(t) <= TokenRead.val /\ TokenRead.val <= MaxOf(t)
                  /\ TokenRead.minus => Signed(t)
            /\ eres.st = "Ok" => HoldsScalar(t, TokenRead.val)

\* The token "-128" was read as a char.
C25_Witness ==
    /\ ScalarRead("Char")
    /\ TokenRead.val = -128
    /\ eres.st = "Ok"
    /\ HoldsScalar("Char", -128)

\* --------------------------------------------------- the line of a record

\* The numbers of the record the client writes, in the order in which the
\* element definition declares the properties.
DeclaredTokens ==
    Flatten([j \in 1..Len(ElementDefA.properties) |->
               [key |-> ElementDefA.properties[j].key,
                value |-> Get(RecordA, ElementDefA.properties[j].key)]], 1)

\* write_ascii_element returned Ok for the record of element a.
AsciiLineWritten ==
    pc = "element_written" /\ wres.call = "write_ascii_element" /\ wres.st = "Ok"

\* C26: the line write_ascii_element writes for a record is its tokens in
\* declared order with exactly one space between two tokens, and the
\* newline directly after the last token: no space leads or trails.
C26_NoTrailingSpace ==
    AsciiLineWritten =>
        Let(DeclaredTokens, LAMBDA toks :
            out = Join(LAMBDA i : (IF i > 1 THEN <<SP>> ELSE <<>>) \o to_string(toks[i]),
                       1, Len(toks)) \o new_line)

\* What the writer does: a space follows every token, the last one too.
SpaceAfterEveryToken ==
    AsciiLineWritten =>
        Let(DeclaredTokens, LAMBDA toks :
            out = Join(LAMBDA i : to_string(toks[i]) \o <<SP>>, 1, Len(toks)) \o new_line)

\* ------------------------------------------- what make_consistent changes

\* The header with the count of every element definition set to 0.
WithoutCounts(header) ==
    [header EXCEPT !.elements =
        [i \in 1..Len(header.elements) |->
            [key |-> header.elements[i].key,
             value |-> [header.elements[i].value EXCEPT !.count = 0]]]]

\* The declared elements, in header order, that have no payload entry in p.
RECURSIVE WithoutEntry(_, _)
WithoutEntry(p, i) ==
    IF i > Len(p.header.elements) THEN <<>>
    ELSE (IF ContainsKey(p.payload, p.header.elements[i].key) THEN <<>>
          ELSE <<p.header.elements[i].key>>) \o WithoutEntry(p, i + 1)

\* From p to q, the header changed in count fields at most, the payload
\* entries of p are those q starts with, and what follows them in q is one
\* empty sequence for each declared element that had no entry in p.
OnlyCountsAndEmptyEntries(p, q) ==
    /\ WithoutCounts(q.header) = WithoutCounts(p.header)
    /\ Len(q.payload) >= Len(p.payload)
    /\ SubSeq(q.payload, 1, Len(p.payload)) = p.payload
    /\ SubSeq(q.payload, Len(p.payload) + 1, Len(q.payload)) =
          Let(WithoutEntry(p, 1), LAMBDA ks :
              [i \in 1..Len(ks) |-> [key |-> ks[i], value |-> <<>>]])

\* C27: a call of make_consistent, alone or inside write_ply, whether it
\* returns Ok or Err, leaves every payload sequence that existed unchanged,
\* changes nothing in the header except count fields of element
\* definitions, and adds to the payload only an empty sequence for each
\* declared element that had no entry.
C27_Frame ==
    [][(pc' \in {"checked", "written"} /\ pc' # pc) =>
          OnlyCountsAndEmptyEntries(ply, ply')]_vars

\* make_consistent returned Err for a payload entry without a declaration,
\* after it had added the entry of a declared element behind it.
C27_Witness ==
    /\ pc = "checked"
    /\ mc = "Err"
    /\ Len(ply.payload) = 2
    /\ ~ContainsKey(ply.header.elements, ply.payload[1].key)
    /\ ContainsKey(ply.header.elements, ply.payload[2].key)
    /\ ply.payload[2].value = <<>>

\* ------------------------------------------------------- repeated names

\* Header lines with names that repeat: element a with two counts, property
\* x with two kinds.
RepeatLines ==
    << [kind |-> "Format", v |-> FormatOf(NewHeader)],
       [kind |-> "Element", v |-> [NewElementDef(Bytes(<<"a">>)) EXCEPT !.count = 1]],
       [kind |-> "Element", v |-> [NewElementDef(Bytes(<<"a">>)) EXCEPT !.count = 2]],
       [kind |-> "Element", v |-> [NewElementDef(Bytes(<<"b">>)) EXCEPT !.count = 1]],
       [kind |-> "Property", v |-> NewPropertyDef(Bytes(<<"x">>), Scalar("Int"))],
       [kind |-> "Property", v |-> NewPropertyDef(Bytes(<<"x">>), List("UChar", "Int"))],
       [kind |-> "Property", v |-> NewPropertyDef(Bytes(<<"y">>), Scalar("Int"))] >>

NextRepeat ==
    \/ WriteHeaderLine(MagicNumberLine)
    \/ \E n \in 1..Len(RepeatLines) : WriteHeaderLine(RepeatLines[n])
    \/ WriteHeaderLine(EndHeaderLine)
    \/ ReadHeader

SpecRepeat == Init /\ [][NextRepeat]_vars

\* The numbers of the set S in ascending order.
Ascending(S) ==
    [i \in 1..Cardinality(S) |-> CHOOSE x \in S : Cardinality({y \in S : y < x}) = i - 1]

IsLine(ls, n, kind) == n \in 1..Len(ls) /\ ls[n].kind = kind

\* The element lines that are the last ones of their name.
LastElementLines(ls) ==
    {n \in 1..Len(ls) :
        /\ IsLine(ls, n, "Element")
        /\ \A m \in (n + 1)..Len(ls) :
              IsLine(ls, m, "Element") => ls[m].v.name # ls[n].v.name}

\* The property lines that follow element line n before the next element
\* line and are the last ones of their name among these.
LastPropertyLines(ls, n) ==
    {k \in (n + 1)..Len(ls) :
        /\ IsLine(ls, k, "Property")
        /\ \A m \in (n + 1)..k : ~IsLine(ls, m, "Element")
        /\ \A m \in (k + 1)..Len(ls) :
              (IsLine(ls, m, "Property") /\ \A e \in (k + 1)..m : ~IsLine(ls, e, "Element"))
                  => ls[m].v.name # ls[k].v.name}

\* One element definition for each name, in the order of the last element
\* lines of the names, each with the count of that line and with the
\* properties of the lines that follow that line, one for each name, in the
\* order of the last property lines of the names.
LastDeclarations(ls) ==
    Let(Ascending(LastElementLines(ls)), LAMBDA es :
        [i \in 1..Len(es) |->
            [key |-> ls[es[i]].v.name,
             value |->
                [ls[es[i]].v EXCEPT !.properties =
                    Let(Ascending(LastPropertyLines(ls, es[i])), LAMBDA ps :
                        [j \in 1..Len(ps) |->
                            [key |-> ls[ps[j]].v.name, value |-> ls[ps[j]].v]])]]])

\* No property line comes before the first element line.
NoOrphanProperty(ls) ==
    \A n \in 1..Len(ls) :
        IsLine(ls, n, "Property") => \E m \in 1..(n - 1) : IsLine(ls, m, "Element")

\* C28: a second element line of a name replaces the earlier declaration,
\* whose count and properties are dropped, and takes the last position;
\* the property lines that follow attach to it; the header read holds one
\* ElementDef for each name.  A repeated property name within one element
\* is overwritten and moved to the end in the same way.
C28_LastDeclarationWins ==
    (pc = "header_read" /\ NoOrphanProperty(lines)) =>
        /\ rres.st = "Ok"
        /\ rres.ply.header.elements = LastDeclarations(lines)
        /\ DistinctKeys(rres.ply.header.elements)

\* read_header returned the one element a, of count 2 and with the one
\* property y, for the lines element a 1, property x, element a 2,
\* property y.
C28_Witness ==
    /\ pc = "header_read"
    /\ rres.st = "Ok"
    /\ Len(lines) = 7
    /\ IsLine(lines, 3, "Element") /\ lines[3].v.name = Bytes(<<"a">>) /\ lines[3].v.count = 1
    /\ IsLine(lines, 4, "Property") /\ lines[4].v.name = Bytes(<<"x">>)
    /\ IsLine(lines, 5, "Element") /\ lines[5].v.name = Bytes(<<"a">>) /\ lines[5].v.count = 2
    /\ IsLine(lines, 6, "Property") /\ lines[6].v.name = Bytes(<<"y">>)
    /\ Keys(rres.ply.header.elements) = <<Bytes(<<"a">>)>>
    /\ rres.ply.header.elements[1].value.count = 2
    /\ Keys(rres.ply.header.elements[1].value.properties) = <<Bytes(<<"y">>)>>

\* ---------------------------------------------- the end of the header loop

MaxInputLines == 4

\* What the input is made of: lines of a header, a line no rule matches,
\* and 'ply' without a line end.
InputLines ==
    << write_line_magic_number.out,
       FormatLine(FormatOf(NewHeader)),
       write_line_end_header.out,
       Bytes(<<"x">>) \o <<LF>>,
       Bytes(<<"p","l","y">>) >>

\* The client appends bytes to the input that a reader over out will see.
PutInput(n) ==
    /\ pc \in {"build", "input"}
    /\ pc = "build" => lines = <<>> /\ out = <<>>
    /\ Len(lines) < MaxInputLines
    /\ out' = out \o InputLines[n]
    /\ lines' = Append(lines, [kind |-> "Input", v |-> <<n>>])
    /\ pc' = "input"
    /\ UNCHANGED <<ply, mc, wres, rres, xres, hst, hline, hseen, eres>>

\* read_header(&mut input) for input = &out[..] up to the loop: read_line
\* takes the first line off the input.
BeginHeader ==
    /\ pc \in {"build", "input"}
    /\ hst' = HeaderStart(read_line(out, 1).line_str)
    /\ hline' = read_line(out, 1).line_str
    /\ out' = SubSeq(out, read_line(out, 1).pos, Len(out))
    /\ pc' = "reading"
    /\ UNCHANGED <<ply, mc, wres, rres, xres, hseen, lines, eres>>

\* One iteration of the loop 'readlines: read_line takes the next line off
\* the input, an empty string at its end, and the match on it follows.
LoopHeader ==
    /\ pc = "reading"
    /\ hst.st = "Reading"
    /\ hst' = HeaderStep(hst, read_line(out, 1).line_str)
    /\ hline' = read_line(out, 1).line_str
    /\ out' = SubSeq(out, read_line(out, 1).pos, Len(out))
    /\ UNCHANGED <<ply, pc, mc, wres, rres, xres, hseen, lines, eres>>

NextLoop ==
    \/ \E n \in 1..Len(InputLines) : PutInput(n)
    \/ BeginHeader
    \/ LoopHeader

\* The loop of __read_header goes on while it has not returned.
SpecLoop == Init /\ [][NextLoop]_vars /\ WF_vars(LoopHeader)

\* C29: read_header terminates on every finite input.  Every iteration of
\* its loop takes a line off the input, at the end of the input the
\* iteration returns an error, and a call that has started returns.
C29_Terminates ==
    /\ [][(pc = "reading" /\ pc' = "reading") =>
             /\ out # <<>> => Len(out') < Len(out)
             /\ out = <<>> => hst'.st = "Err"]_vars
    /\ [](pc = "reading" => <>(hst.st \in {"Done", "Err"}))

\* The input ended before end_header, and the call returned an error.
C29_Witness ==
    /\ pc = "reading"
    /\ hst.st = "Err"
    /\ hst.line_index >= 3
    /\ hline = <<>>
    /\ out = <<>>
    /\ \A i \in 1..Len(lines) : InputLines[lines[i].v[1]] # write_line_end_header.out

\* ------------------------------------------------- a write that aborts

\* C30: write_ply on a Ply that make_consistent accepts returns Ok or Err
\* and never aborts, also for an Ascii Ply in which an element without
\* properties has a record.
C30_NeverAborts ==
    (pc = "written" /\ mc = "Ok") => wres.st \in {"Ok", "Err"}

\* What the writer does: the write of a consistent Ascii Ply aborts exactly
\* when an element without properties has a record.
AbortsOnRecordWithoutProperties ==
    (pc = "written" /\ mc = "Ok") =>
        (wres.st = "Panic" <=>
            \E i \in 1..Len(ply.payload) :
                /\ ply.payload[i].value # <<>>
                /\ Get(ply.header.elements, ply.payload[i].key).properties = <<>>)

====
